---------------------------- MODULE Spec2Model ----------------------------
(***************************************************************************)
(* A model of arloader's upload core (src/src/lib.rs, src/src/raw.rs):     *)
(*   - chunk_file_paths, the greedy fold that batches paths (SpecChunker), *)
(*   - upload_files_stream and upload_bundles_stream, the buffer_unordered *)
(*     pipelines over upload_file_from_path and                            *)
(*     post_bundle_transaction_from_file_paths (Spec),                     *)
(*   - post_chunk_with_retries, post_transaction and                       *)
(*     post_transaction_chunks, the gateway calls with retry (SpecPost),   *)
(*     and the retry loops alone under weak fairness (SpecRetry),          *)
(*   - upload_file_from_path and upload_raw_data, one call (SpecUpload),   *)
(*   - write_status, read_status, get_status and update_status over the    *)
(*     sidecar directory (SpecStore), and the sidecars the uploads and     *)
(*     update_status leave behind (SpecSidecar),                           *)
(*   - data items, bundles and transaction signing on bytes (SpecBundle),  *)
(*   - create_bundle_transaction_from_file_paths and the manifests         *)
(*     (SpecManifest),                                                     *)
(*   - create_transaction: tags and reward (SpecTx).                       *)
(* Sizes are in bytes.  File sizes are far below 2^63, so the u64 sums of  *)
(* file sizes never wrap and are modelled as unbounded integers; the       *)
(* reward of create_transaction is computed on 64 bits.                    *)
(***************************************************************************)
EXTENDS Integers, Sequences, FiniteSets, TLC

VARIABLES
    \* ---- the inputs shared by the chunker and the streams
    paths_iter,     \* the input paths, in iteration order
    file_len,       \* p.metadata().len() of every path
    data_size,      \* the size budget the batches are built with
    \* ---- chunk_file_paths, one fold step at a time
    fold_pos,       \* number of paths the fold has consumed
    fold_acc,       \* the fold accumulator (ip, i, data_len)
    chunker_pc,     \* "idle" | "fold" | "done"
    chunker_out,    \* the Vec<PathsChunk> returned
    \* ---- upload_files_stream / upload_bundles_stream
    op,             \* "none" | "files" | "bundles": the stream function called
    buffer,         \* the buffer argument
    paths_chunks,   \* the Vec<PathsChunk> argument of upload_bundles_stream
    bundles_buffer, \* the bound given to buffer_unordered by upload_bundles_stream
    chunks_buffer,  \* the chunk concurrency handed to every bundle upload
    stream_pc,      \* "idle" | "call" | "running" | "done" | "panicked" | "dropped"
    next_item,      \* number of items taken from the input iterator
    in_progress,    \* the futures in the buffer: item index -> upload state
    yielded,        \* the results the stream has produced, in order
    cancelled,      \* the futures dropped with the stream: item index -> upload state
    finish_order,   \* the items in the order their upload futures finished
    polled,         \* the consumer has polled the stream at least once
    \* ---- one call of post_chunk_with_retries / post_transaction /
    \*      post_transaction_chunks
    post_fn,        \* "none" or the function called
    signed,         \* the transaction's id is not empty
    n_chunks,       \* signed_transaction.chunks.len()
    post_buffer,    \* the chunks_buffer argument
    post_pc,        \* "idle" | "call" | "header" | "chunks" | "returned"
    post_ret,       \* what the call returned
    tx_pc,          \* post_transaction: "idle" | "loop" | "send" | "sleep" | "returned"
    tx_retries,     \* post_transaction's retries
    tx_status,      \* post_transaction's status
    tx_posts,       \* POSTs sent to tx/
    tx_sleeps,      \* sleeps of post_transaction
    tx_ret,         \* what post_transaction returned
    tx_answers,     \* the gateway's answers to the tx/ POSTs, in order
    chunk_next,     \* chunks taken from stream::iter(0..chunks.len())
    chunk_tasks,    \* post_chunk_with_retries futures: chunk -> state
    chunk_posts,    \* chunk -> the bodies POSTed to chunk/ for it, in order
    chunk_sleeps,   \* chunk -> sleeps of its post_chunk_with_retries
    chunk_results,  \* the results the chunk stream yielded, in order
    chunk_answers,  \* per chunk: the attempt first answered 200 (0: none), the last answer
    \* ---- one call of upload_file_from_path / upload_raw_data
    up_fn,          \* "none" or the function called
    up_path,        \* file_path (upload_file_from_path)
    up_arg_len,     \* data.len() of the argument (upload_raw_data)
    up_pc,          \* "idle" | "call" | "post_tx" | "post_chunks" | "returned"
    up_tx,          \* the signed transaction and how it is posted
    up_ret,         \* what the call returned
    \* ---- the status store: write_status / read_status / update_status /
    \*      get_status, one call after the other
    log_dir,        \* the sidecar directory: file stem -> JSON content
    now,            \* the clock Utc::now() reads
    st_calls,       \* calls made so far
    st_fn,          \* "none" or the function called last
    st_pc,          \* "idle" | "get" | "write" | "returned"
    st_status,      \* the status argument (write_status), the local status (update_status)
    st_path,        \* the file_path argument (read_status, update_status)
    st_stem,        \* the file_stem argument (write_status)
    st_resp,        \* the gateway's answer to the status GET of this call
    st_gets,        \* GETs of tx/{id}/status made by this call
    st_before,      \* log_dir as it was when the call was made
    st_post,        \* an upload call: its log_dir argument and what the gateway answered
    st_ret,         \* what the call returned
    \* ---- data items, the bundle codec and signing
    data_items,     \* the Vec<DataItem> given to create_bundle_from_data_items
    item_src,       \* where every item of data_items comes from: "signed" | "received"
    bd_pc,          \* "idle" | "items" | "encoded" | "decoded"
    bundle,         \* the bytes create_bundle_from_data_items returned
    decoded,        \* what deserialize_bundle returned
    damaged,        \* the malformed bundle handed to deserialize_bundle, and how it was damaged
    transaction,    \* the transaction given to sign_transaction
    tn_pc,          \* "idle" | "created" | "signed"
    \* ---- one call that makes a bundle of a batch of paths, or a manifest
    \*      of bundle statuses
    mf_fn,          \* "none" or the function called
    preserve_order, \* serde_json is built with its preserve_order feature
    mf_paths,       \* the batch of paths (paths_chunk.0)
    mf_statuses,    \* the Vec<BundleStatus> argument
    mf_pc,          \* "idle" | "call" | "items" | "joined" | "returned" | "failed"
    mf_outputs,     \* future -> its (DataItem, Status), once it has finished
    mf_finished,    \* the futures in the order they finished
    mf_items,       \* the Vec<(DataItem, Status)> try_join_all returned
    mf_binary,      \* the bundle binary
    mf_manifest,    \* the manifest returned
    \* ---- one call of create_transaction, directly or from
    \*      upload_file_from_path / upload_raw_data
    ct_fn,          \* "none" or the function called
    overflow_checks,\* the build panics on integer overflow
    ct_args,        \* the arguments of the call
    ct_pc,          \* "idle" | "call" | "priced" | "create" | "anchor" | "reward"
                    \* | "returned" | "failed" | "panicked"
    ct_call,        \* the arguments create_transaction is called with
    ct_tx           \* the transaction create_transaction builds

inputVars == <<paths_iter, file_len, data_size>>
chunkerVars == <<fold_pos, fold_acc, chunker_pc, chunker_out>>
streamVars == <<op, buffer, paths_chunks, bundles_buffer, chunks_buffer,
                stream_pc, next_item, in_progress, yielded, cancelled,
                finish_order, polled>>
postVars == <<post_fn, signed, n_chunks, post_buffer, post_pc, post_ret,
              tx_pc, tx_retries, tx_status, tx_posts, tx_sleeps, tx_ret, tx_answers,
              chunk_next, chunk_tasks, chunk_posts, chunk_sleeps, chunk_results,
             chunk_answers>>
uploadVars == <<up_fn, up_path, up_arg_len, up_pc, up_tx, up_ret>>
storeVars == <<log_dir, now, st_calls, st_fn, st_pc, st_status, st_path, st_stem,
               st_resp, st_gets, st_before, st_post, st_ret>>
bundleVars == <<data_items, item_src, bd_pc, bundle, decoded, damaged, transaction, tn_pc>>
manifestVars == <<mf_fn, preserve_order, mf_paths, mf_statuses, mf_pc, mf_outputs,
                  mf_finished, mf_items, mf_binary, mf_manifest>>
txVars == <<ct_fn, overflow_checks, ct_args, ct_pc, ct_call, ct_tx>>

\* What the actions of each operation leave alone.
chunkerFrame ==
    <<inputVars, streamVars, postVars, uploadVars, storeVars, bundleVars, manifestVars, txVars>>
streamFrame ==
    <<inputVars, chunkerVars, postVars, uploadVars, storeVars, bundleVars, manifestVars, txVars>>
postFrame ==
    <<inputVars, chunkerVars, streamVars, uploadVars, storeVars, bundleVars, manifestVars, txVars>>
uploadFrame ==
    <<inputVars, chunkerVars, streamVars, postVars, storeVars, bundleVars, manifestVars, txVars>>
storeFrame ==
    <<inputVars, chunkerVars, streamVars, postVars, uploadVars, bundleVars, manifestVars, txVars>>
bundleFrame ==
    <<inputVars, chunkerVars, streamVars, postVars, uploadVars, storeVars, manifestVars, txVars>>
manifestFrame ==
    <<inputVars, chunkerVars, streamVars, postVars, uploadVars, storeVars, bundleVars,
      txVars>>
txFrame ==
    <<inputVars, chunkerVars, streamVars, postVars, uploadVars, storeVars, bundleVars,
      manifestVars>>

(***************************************************************************)
(* Program constants.                                                      *)
(***************************************************************************)
MAX_TX_DATA == 10000000
CHUNKS_BUFFER_FACTOR == 20
CHUNKS_RETRIES == 10
CHUNKS_RETRY_SLEEP == 1

(***************************************************************************)
(* Bounds of the model.                                                    *)
(***************************************************************************)
MaxPaths == 3
MaxBuffer == 2
MaxChunks == 2
MaxChunksBuffer == 2
MaxCalls == 3
MaxItems == 2
MaxStatuses == 3

\* The paths of the modelled file system and the sizes a file may have:
\* below, at and above MAX_TX_DATA.
Paths == {"a", "b"}
FileLens == {4000000, 10000000, 12000000}
\* The budgets chunk_file_paths is called with: at and above MAX_TX_DATA.
Budgets == {10000000, 20000000}

RECURSIVE SeqsUpTo(_, _)
SeqsUpTo(S, n) ==
    IF n = 0 THEN {<<>>}
    ELSE LET shorter == SeqsUpTo(S, n - 1)
         IN  shorter \cup {Append(s, x) : s \in {t \in shorter : Len(t) = n - 1}, x \in S}

(***************************************************************************)
(* chunk_file_paths                                                        *)
(***************************************************************************)
\* PathsChunk(Vec<PathBuf>, u64): fields .0 and .1.
PathsChunk(p, n) == [paths |-> p, data_len |-> n]

\* The initial accumulator of the fold.
FoldInit == [ip |-> <<>>, i |-> <<>>, data_len |-> 0]

\* A fold step that forgets the triggering file's size when it opens a batch.
FoldStepNoLen(acc, p, p_len, budget) ==
    IF acc.data_len + p_len > budget
    THEN [ip |-> Append(acc.ip, PathsChunk(acc.i, acc.data_len)),
          i |-> <<p>>, data_len |-> 0]
    ELSE [ip |-> acc.ip, i |-> Append(acc.i, p), data_len |-> acc.data_len + p_len]

\* A fold step that opens a new batch when the file fills the budget exactly.
FoldStepAtBudget(acc, p, p_len, budget) ==
    IF acc.data_len + p_len >= budget
    THEN [ip |-> Append(acc.ip, PathsChunk(acc.i, acc.data_len)),
          i |-> <<p>>, data_len |-> p_len]
    ELSE [ip |-> acc.ip, i |-> Append(acc.i, p), data_len |-> acc.data_len + p_len]

\* A fold step that tests the running total before the file is added.
FoldStepLateCheck(acc, p, p_len, budget) ==
    IF acc.data_len > budget
    THEN [ip |-> Append(acc.ip, PathsChunk(acc.i, acc.data_len)),
          i |-> <<p>>, data_len |-> p_len]
    ELSE [ip |-> acc.ip, i |-> Append(acc.i, p), data_len |-> acc.data_len + p_len]

\* The closure of the fold: |(mut ip, mut i, data_len), p| { ... }.
FoldStep(acc, p, p_len, budget) ==
    IF acc.data_len + p_len > budget
    THEN [ip |-> Append(acc.ip, PathsChunk(acc.i, acc.data_len)),
          i |-> <<p>>, data_len |-> p_len]
    ELSE [ip |-> acc.ip, i |-> Append(acc.i, p), data_len |-> acc.data_len + p_len]

\* After the fold: the last chunk is pushed when it is not empty.
FoldFinish(acc) ==
    IF Len(acc.i) > 0
    THEN Append(acc.ip, PathsChunk(acc.i, acc.data_len))
    ELSE acc.ip

RECURSIVE FoldPaths(_, _, _, _)
FoldPaths(acc, paths, lens, budget) ==
    IF paths = <<>> THEN acc
    ELSE FoldPaths(FoldStep(acc, Head(paths), lens[Head(paths)], budget),
                   Tail(paths), lens, budget)

\* chunk_file_paths as a function of its inputs.
chunk_file_paths(paths, lens, budget) ==
    FoldFinish(FoldPaths(FoldInit, paths, lens, budget))

InitInputs ==
    /\ paths_iter \in SeqsUpTo(Paths, MaxPaths)
    /\ file_len \in [Paths -> FileLens]
    /\ data_size \in Budgets

IdleInputs ==
    /\ paths_iter = <<>>
    /\ file_len = [p \in Paths |-> 0]
    /\ data_size = 0

InitChunker ==
    /\ fold_pos = 0
    /\ fold_acc = FoldInit
    /\ chunker_pc = "fold"
    /\ chunker_out = <<>>

IdleChunker ==
    /\ fold_pos = 0
    /\ fold_acc = FoldInit
    /\ chunker_pc = "idle"
    /\ chunker_out = <<>>

\* The fold consumes the next path.
ChunkerStep ==
    /\ chunker_pc = "fold"
    /\ fold_pos < Len(paths_iter)
    /\ LET p == paths_iter[fold_pos + 1]
       IN  fold_acc' = FoldStep(fold_acc, p, file_len[p], data_size)
    /\ fold_pos' = fold_pos + 1
    /\ UNCHANGED <<chunkerFrame, chunker_pc, chunker_out>>

\* The iterator is exhausted: push the last chunk and return.
ChunkerReturn ==
    /\ chunker_pc = "fold"
    /\ fold_pos = Len(paths_iter)
    /\ chunker_out' = FoldFinish(fold_acc)
    /\ chunker_pc' = "done"
    /\ UNCHANGED <<chunkerFrame, fold_pos, fold_acc>>

NextChunker == ChunkerStep \/ ChunkerReturn

(***************************************************************************)
(* The size of an encoded bundle.                                          *)
(***************************************************************************)
\* create_bundle_from_data_items: the 8-byte count and the 24 zero bytes.
BundleHeaderLen == 32
\* One entry of the bundle index: 8-byte length, 24 zero bytes, 32-byte id.
ItemIndexLen == 64
\* A serialized data item without target and anchor, before its tag bytes and
\* data: 2 + 512 + 512 + 1 + 1 + 8 + 8.  The tag bytes, which every item
\* has, only add to it.
ItemEnvelopeLen == 1044

RECURSIVE ItemsLen(_, _)
ItemsLen(paths, lens) ==
    IF paths = <<>> THEN 0
    ELSE ItemIndexLen + ItemEnvelopeLen + lens[Head(paths)]
         + ItemsLen(Tail(paths), lens)

\* Length of the binary create_bundle_from_data_items returns for the items
\* built from `paths`: header, index entries, item bodies.
BundleLen(paths, lens) == BundleHeaderLen + ItemsLen(paths, lens)

(***************************************************************************)
(* upload_files_stream and upload_bundles_stream                           *)
(***************************************************************************)
\* A future just created by the closure given to map.
NewUpload == [pc |-> "create", data_len |-> 0, chunks_buffer |-> 0]

\* A choice that sends data of exactly MAX_TX_DATA bytes to the chunk stream.
UploadRouteAtMax(len) ==
    IF len >= MAX_TX_DATA
    THEN [pc |-> "post_chunks", data_len |-> len, chunks_buffer |-> 100]
    ELSE [pc |-> "post_tx", data_len |-> len, chunks_buffer |-> 0]

\* upload_file_from_path, after signing: chunk stream when the data is longer
\* than MAX_TX_DATA, else the whole transaction.
UploadRoute(len) ==
    IF len > MAX_TX_DATA
    THEN [pc |-> "post_chunks", data_len |-> len, chunks_buffer |-> 100]
    ELSE [pc |-> "post_tx", data_len |-> len, chunks_buffer |-> 0]

\* post_bundle_transaction_from_file_paths, after signing: decided on the
\* batch's recorded size paths_chunk.1; the transaction's data is the bundle.
BundleRoute(paths_chunk, lens, chunks_buf) ==
    IF paths_chunk.data_len > MAX_TX_DATA
    THEN [pc |-> "post_chunks", data_len |-> BundleLen(paths_chunk.paths, lens),
          chunks_buffer |-> chunks_buf]
    ELSE [pc |-> "post_tx", data_len |-> BundleLen(paths_chunk.paths, lens),
          chunks_buffer |-> 0]

\* upload_bundles_stream: (bundles_buffer, chunks_buffer) from the first batch.
BundleBuffers(chunks, buf) ==
    IF chunks[1].data_len > MAX_TX_DATA
    THEN <<1, buf * CHUNKS_BUFFER_FACTOR>>
    ELSE <<buf, 1>>

\* The number of items of the stream::iter the pipeline reads.
NumItems == IF op = "files" THEN Len(paths_iter) ELSE Len(paths_chunks)

\* A pipeline that hands the chunk concurrency to buffer_unordered.
StreamBoundChunks == IF op = "files" THEN buffer ELSE chunks_buffer

\* The argument of buffer_unordered.
StreamBound == IF op = "files" THEN buffer ELSE bundles_buffer

InFlight == DOMAIN in_progress

\* A stream that hands out its results in the order of the input.
YieldInInputOrder(results, k, ok) ==
    LET before == Cardinality({j \in 1..Len(results) : results[j].item < k})
    IN  SubSeq(results, 1, before) \o <<[item |-> k, ok |-> ok]>>
        \o SubSeq(results, before + 1, Len(results))

\* buffer_unordered: the output of a future is the stream's next item as
\* soon as the future finishes.
Yield(results, k, ok) == Append(results, [item |-> k, ok |-> ok])

Without(f, k) == [j \in DOMAIN f \ {k} |-> f[j]]
With(f, k, v) == [j \in DOMAIN f \cup {k} |-> IF j = k THEN v ELSE f[j]]

InitStream ==
    /\ op = "none"
    /\ buffer \in 1..MaxBuffer
    /\ paths_chunks = chunk_file_paths(paths_iter, file_len, data_size)
    /\ bundles_buffer = 0
    /\ chunks_buffer = 0
    /\ stream_pc = "call"
    /\ next_item = 0
    /\ in_progress = <<>>
    /\ yielded = <<>>
    /\ cancelled = <<>>
    /\ finish_order = <<>>
    /\ polled = FALSE

IdleStream ==
    /\ op = "none"
    /\ buffer = 0
    /\ paths_chunks = <<>>
    /\ bundles_buffer = 0
    /\ chunks_buffer = 0
    /\ stream_pc = "idle"
    /\ next_item = 0
    /\ in_progress = <<>>
    /\ yielded = <<>>
    /\ cancelled = <<>>
    /\ finish_order = <<>>
    /\ polled = FALSE

\* upload_files_stream(arweave, paths_iter, .., buffer) builds the pipeline.
upload_files_stream ==
    /\ stream_pc = "call"
    /\ op' = "files"
    /\ stream_pc' = "running"
    /\ UNCHANGED <<streamFrame, polled, cancelled, finish_order, buffer, paths_chunks,
                   bundles_buffer, chunks_buffer,
                   next_item, in_progress, yielded>>

\* upload_bundles_stream(arweave, paths_chunks, .., buffer) builds the
\* pipeline; paths_chunks[0] panics on an empty Vec.
upload_bundles_stream ==
    /\ stream_pc = "call"
    /\ op' = "bundles"
    /\ IF paths_chunks = <<>>
       THEN /\ stream_pc' = "panicked"
            /\ UNCHANGED <<bundles_buffer, chunks_buffer>>
       ELSE /\ stream_pc' = "running"
            /\ bundles_buffer' = BundleBuffers(paths_chunks, buffer)[1]
            /\ chunks_buffer' = BundleBuffers(paths_chunks, buffer)[2]
    /\ UNCHANGED <<streamFrame, polled, cancelled, finish_order, buffer, paths_chunks,
                   next_item, in_progress, yielded>>

\* The consumer polls the stream for the first time (StreamExt::next, or a
\* combinator that drives it).  The pipeline is a value until then.
StreamPoll ==
    /\ stream_pc = "running"
    /\ ~polled
    /\ polled' = TRUE
    /\ UNCHANGED <<streamFrame, cancelled, finish_order, op, buffer, paths_chunks,
                   bundles_buffer, chunks_buffer, stream_pc, next_item, in_progress,
                   yielded>>

\* A buffer_unordered that fills its buffer when it is built.
PullAllowedUnpolled(in_flight, bound, is_polled) == in_flight < bound

\* buffer_unordered, inside poll_next: the next item is taken from the
\* iterator while fewer than the bound are in the buffer.
PullAllowed(in_flight, bound, is_polled) == is_polled /\ in_flight < bound

\* buffer_unordered takes the next item from the iterator and map's closure
\* creates its upload future, while fewer than the bound are in the buffer.
StreamPull ==
    /\ stream_pc = "running"
    /\ PullAllowed(Cardinality(InFlight), StreamBound, polled)
    /\ next_item < NumItems
    /\ next_item' = next_item + 1
    /\ in_progress' = With(in_progress, next_item + 1, NewUpload)
    /\ UNCHANGED <<streamFrame, polled, cancelled, finish_order, op, buffer, paths_chunks,
                   bundles_buffer,
                   chunks_buffer, stream_pc, yielded>>

\* The upload of item k has read its file(s), built and signed its
\* transaction, and starts posting it.
UploadBuilt(k) ==
    /\ k \in InFlight
    /\ in_progress[k].pc = "create"
    /\ in_progress' =
         [in_progress EXCEPT ![k] =
            IF op = "files"
            THEN UploadRoute(file_len[paths_iter[k]])
            ELSE BundleRoute(paths_chunks[k], file_len, chunks_buffer)]
    /\ UNCHANGED <<streamFrame, polled, cancelled, finish_order, op, buffer, paths_chunks,
                   bundles_buffer,
                   chunks_buffer, stream_pc, next_item, yielded>>

\* An upload that stops the pipeline when it fails.
UploadFailedStops(k) ==
    /\ k \in InFlight
    /\ yielded' = Yield(yielded, k, FALSE)
    /\ finish_order' = Append(finish_order, k)
    /\ in_progress' = Without(in_progress, k)
    /\ next_item' = NumItems
    /\ UNCHANGED <<streamFrame, polled, cancelled, op, buffer, paths_chunks, bundles_buffer,
                   chunks_buffer, stream_pc>>

\* The upload of item k ends in Err (a `?` returned early: file read, anchor
\* fetch, POST failure); the stream yields it and the slot is free.
UploadFailed(k) ==
    /\ k \in InFlight
    /\ yielded' = Yield(yielded, k, FALSE)
    /\ finish_order' = Append(finish_order, k)
    /\ in_progress' = Without(in_progress, k)
    /\ UNCHANGED <<streamFrame, polled, cancelled, op, buffer, paths_chunks, bundles_buffer,
                   chunks_buffer, stream_pc, next_item>>

\* The gateway accepted the upload of item k; the stream yields Ok(status).
UploadPosted(k) ==
    /\ k \in InFlight
    /\ in_progress[k].pc \in {"post_tx", "post_chunks"}
    /\ yielded' = Yield(yielded, k, TRUE)
    /\ finish_order' = Append(finish_order, k)
    /\ in_progress' = Without(in_progress, k)
    /\ UNCHANGED <<streamFrame, polled, cancelled, op, buffer, paths_chunks, bundles_buffer,
                   chunks_buffer, stream_pc, next_item>>

\* The iterator is exhausted and the buffer is empty: the stream ends.
StreamEnd ==
    /\ stream_pc = "running"
    /\ next_item = NumItems
    /\ InFlight = {}
    /\ stream_pc' = "done"
    /\ UNCHANGED <<streamFrame, polled, cancelled, finish_order, op, buffer, paths_chunks,
                   bundles_buffer,
                   chunks_buffer, next_item, in_progress, yielded>>

\* The consumer drops the stream: BufferUnordered is dropped with the
\* iterator and with the futures in its buffer, each wherever its last poll
\* left it; a future that is dropped is never polled again.
StreamDrop ==
    /\ stream_pc = "running"
    /\ stream_pc' = "dropped"
    /\ cancelled' = in_progress
    /\ in_progress' = <<>>
    /\ UNCHANGED <<streamFrame, polled, finish_order, op, buffer, paths_chunks, bundles_buffer,
                   chunks_buffer, next_item, yielded>>

NextStream ==
    \/ upload_files_stream
    \/ upload_bundles_stream
    \/ StreamPoll
    \/ StreamPull
    \/ \E k \in InFlight : UploadBuilt(k)
    \/ \E k \in InFlight : UploadFailed(k)
    \/ \E k \in InFlight : UploadPosted(k)
    \/ StreamEnd
    \/ StreamDrop

(***************************************************************************)
(* post_chunk_with_retries, post_transaction, post_transaction_chunks      *)
(***************************************************************************)
IdlePost ==
    /\ post_fn = "none"
    /\ signed = FALSE
    /\ n_chunks = 0
    /\ post_buffer = 0
    /\ post_pc = "idle"
    /\ post_ret = "none"
    /\ tx_pc = "idle"
    /\ tx_retries = 0
    /\ tx_status = "NOT_FOUND"
    /\ tx_posts = 0
    /\ tx_sleeps = 0
    /\ tx_ret = "none"
    /\ tx_answers = <<>>
    /\ chunk_next = 0
    /\ chunk_tasks = <<>>
    /\ chunk_posts = <<>>
    /\ chunk_sleeps = <<>>
    /\ chunk_results = <<>>
    /\ chunk_answers = <<>>

\* No POST of the chunk has been answered yet.
NoChunkAnswer == [first_ok |-> 0, last |-> "none"]

\* The calls: a chunk through post_chunk_with_retries, a signed or unsigned
\* transaction through post_transaction or post_transaction_chunks.
PostCalls ==
    {[fn |-> "post_chunk_with_retries", signed |-> TRUE, n |-> 1, buf |-> 0]}
    \cup {[fn |-> "post_transaction", signed |-> sg, n |-> 0, buf |-> 0] :
             sg \in BOOLEAN}
    \cup {[fn |-> "post_transaction_chunks", signed |-> sg, n |-> n, buf |-> b] :
             sg \in BOOLEAN, n \in 0..MaxChunks, b \in 1..MaxChunksBuffer}

InitPost ==
    /\ \E c \in PostCalls :
          /\ post_fn = c.fn
          /\ signed = c.signed
          /\ n_chunks = c.n
          /\ post_buffer = c.buf
          /\ chunk_posts = [k \in 1..c.n |-> <<>>]
          /\ chunk_sleeps = [k \in 1..c.n |-> 0]
          /\ chunk_answers = [k \in 1..c.n |-> NoChunkAnswer]
    /\ post_pc = "call"
    /\ post_ret = "none"
    /\ tx_pc = "idle"
    /\ tx_retries = 0
    /\ tx_status = "NOT_FOUND"
    /\ tx_posts = 0
    /\ tx_sleeps = 0
    /\ tx_ret = "none"
    /\ tx_answers = <<>>
    /\ chunk_next = 0
    /\ chunk_tasks = <<>>
    /\ chunk_results = <<>>

\* What the gateway, or the transport, answers to a POST.
TxAnswers == {"OK", "NOT_OK", "transport"}
ChunkAnswers == {"Ok", "StatusCodeNotOk", "ArweavePostError"}

\* ---- post_transaction

\* The call of post_transaction.
post_transaction_call ==
    /\ post_fn = "post_transaction"
    /\ post_pc = "call"
    /\ post_pc' = "header"
    /\ tx_pc' = "call"
    /\ UNCHANGED <<postFrame, post_fn, signed, n_chunks, post_buffer, post_ret,
                   tx_retries, tx_status, tx_posts, tx_sleeps, tx_ret, tx_answers,
                   chunk_next, chunk_tasks, chunk_posts, chunk_sleeps, chunk_results,
                   chunk_answers>>

\* A post_transaction that sends whatever it is given.
TxEnterNoCheck ==
    /\ tx_pc = "call"
    /\ tx_pc' = "loop"
    /\ tx_retries' = 0
    /\ tx_status' = "NOT_FOUND"
    /\ UNCHANGED tx_ret
    /\ UNCHANGED <<postFrame, post_fn, signed, n_chunks, post_buffer, post_pc,
                   post_ret, tx_posts, tx_sleeps, tx_answers,
                   chunk_next, chunk_tasks, chunk_posts, chunk_sleeps, chunk_results,
                   chunk_answers>>

\* post_transaction's entry: an empty id returns UnsignedTransaction, else
\* retries = 0 and status = NOT_FOUND.
TxEnter ==
    /\ tx_pc = "call"
    /\ IF ~signed
       THEN /\ tx_ret' = "UnsignedTransaction"
            /\ tx_pc' = "returned"
            /\ UNCHANGED <<tx_retries, tx_status>>
       ELSE /\ tx_pc' = "loop"
            /\ tx_retries' = 0
            /\ tx_status' = "NOT_FOUND"
            /\ UNCHANGED tx_ret
    /\ UNCHANGED <<postFrame, post_fn, signed, n_chunks, post_buffer, post_pc,
                   post_ret, tx_posts, tx_sleeps, tx_answers,
                   chunk_next, chunk_tasks, chunk_posts, chunk_sleeps, chunk_results,
                   chunk_answers>>

\* A loop condition that allows one attempt more.
TxLoopGuardOffByOne(retries, status) ==
    (retries <= CHUNKS_RETRIES) /\ (status # "OK")

\* while (retries < CHUNKS_RETRIES) & (status != OK)
TxLoopGuard(retries, status) ==
    (retries < CHUNKS_RETRIES) /\ (status # "OK")

\* The loop head: POST the transaction to tx/, or leave the loop with
\* Err(StatusCodeNotOk).
TxLoop ==
    /\ tx_pc = "loop"
    /\ IF TxLoopGuard(tx_retries, tx_status)
       THEN /\ tx_posts' = tx_posts + 1
            /\ tx_pc' = "send"
            /\ UNCHANGED tx_ret
       ELSE /\ tx_ret' = "StatusCodeNotOk"
            /\ tx_pc' = "returned"
            /\ UNCHANGED tx_posts
    /\ UNCHANGED <<postFrame, post_fn, signed, n_chunks, post_buffer, post_pc,
                   post_ret, tx_retries, tx_status, tx_sleeps, tx_answers,
                   chunk_next, chunk_tasks, chunk_posts, chunk_sleeps, chunk_results,
                   chunk_answers>>

\* The answer to the POST: a transport error leaves through `?`, OK returns
\* Ok((id, reward)), any other status goes to the sleep.
TxAnswer(r) ==
    /\ tx_pc = "send"
    /\ tx_answers' = Append(tx_answers, r)
    /\ CASE r = "transport" ->
              /\ tx_ret' = "ArweavePostError"
              /\ tx_pc' = "returned"
              /\ UNCHANGED tx_status
         [] r = "OK" ->
              /\ tx_status' = "OK"
              /\ tx_ret' = "Ok"
              /\ tx_pc' = "returned"
         [] OTHER ->
              /\ tx_status' = "NOT_OK"
              /\ tx_pc' = "sleep"
              /\ UNCHANGED tx_ret
    /\ UNCHANGED <<postFrame, post_fn, signed, n_chunks, post_buffer, post_pc,
                   post_ret, tx_retries, tx_posts, tx_sleeps,
                   chunk_next, chunk_tasks, chunk_posts, chunk_sleeps, chunk_results,
                   chunk_answers>>

\* sleep(CHUNKS_RETRY_SLEEP); retries += 1
TxSleep ==
    /\ tx_pc = "sleep"
    /\ tx_sleeps' = tx_sleeps + CHUNKS_RETRY_SLEEP
    /\ tx_retries' = tx_retries + 1
    /\ tx_pc' = "loop"
    /\ UNCHANGED <<postFrame, post_fn, signed, n_chunks, post_buffer, post_pc,
                   post_ret, tx_status, tx_posts, tx_ret, tx_answers,
                   chunk_next, chunk_tasks, chunk_posts, chunk_sleeps, chunk_results,
                   chunk_answers>>

\* A post_transaction_chunks that goes on to the chunks whatever the header
\* POST returned.
HeaderIgnored(ret) == TRUE

\* post_transaction_chunks, `self.post_transaction(&transaction_with_no_data)
\* .await?`: it goes on to the chunks only with an Ok.
HeaderAccepted(ret) == ret = "Ok"

\* post_transaction has returned to its caller: the call itself, or
\* post_transaction_chunks, whose `?` returns an Err and which otherwise
\* goes on to the chunk stream.
TxReturn ==
    /\ post_pc = "header"
    /\ tx_pc = "returned"
    /\ IF post_fn = "post_transaction_chunks" /\ HeaderAccepted(tx_ret)
       THEN post_pc' = "chunks" /\ UNCHANGED post_ret
       ELSE post_pc' = "returned" /\ post_ret' = tx_ret
    /\ UNCHANGED <<postFrame, post_fn, signed, n_chunks, post_buffer,
                   tx_pc, tx_retries, tx_status, tx_posts, tx_sleeps, tx_ret, tx_answers,
                   chunk_next, chunk_tasks, chunk_posts, chunk_sleeps, chunk_results,
                   chunk_answers>>

\* ---- post_chunk_with_retries

\* A future of post_chunk_with_retries at its first post_chunk.
NewChunkTask == [pc |-> "send", retries |-> 0]

\* A loop that retries once more than CHUNKS_RETRIES.
ChunkRetryAgainOffByOne(retries, resp) ==
    retries <= CHUNKS_RETRIES /\ resp # "Ok"

\* A loop that does not look at resp before it retries.
ChunkRetryAgainOnOk(retries, resp) == retries < CHUNKS_RETRIES

\* while retries < CHUNKS_RETRIES { match resp { Err(e) => sleep, retry } }
ChunkRetryAgain(retries, resp) ==
    retries < CHUNKS_RETRIES /\ resp # "Ok"

\* The call of post_chunk_with_retries: retries = 0 and the first post_chunk.
post_chunk_with_retries_call ==
    /\ post_fn = "post_chunk_with_retries"
    /\ post_pc = "call"
    /\ post_pc' = "chunks"
    /\ chunk_next' = 1
    /\ chunk_tasks' = With(chunk_tasks, 1, NewChunkTask)
    /\ chunk_posts' = [chunk_posts EXCEPT ![1] = Append(@, 1)]
    /\ UNCHANGED <<postFrame, post_fn, signed, n_chunks, post_buffer, post_ret,
                   tx_pc, tx_retries, tx_status, tx_posts, tx_sleeps, tx_ret, tx_answers,
                   chunk_sleeps, chunk_results,
                   chunk_answers>>

\* The answer to a post_chunk of chunk c: the loop sleeps before a retry, or
\* post_chunk_with_retries returns (Ok(offset), or resp once the retries are
\* used up) and the chunk stream yields the result.
ChunkAnswer(c, r) ==
    /\ c \in DOMAIN chunk_tasks
    /\ chunk_tasks[c].pc = "send"
    /\ IF ChunkRetryAgain(chunk_tasks[c].retries, r)
       THEN /\ chunk_tasks' = [chunk_tasks EXCEPT ![c].pc = "sleep"]
            /\ UNCHANGED <<chunk_results, post_pc, post_ret>>
       ELSE /\ chunk_tasks' = Without(chunk_tasks, c)
            /\ chunk_results' = Append(chunk_results, [chunk |-> c, resp |-> r])
            /\ IF post_fn = "post_chunk_with_retries"
               THEN post_pc' = "returned" /\ post_ret' = r
               ELSE UNCHANGED <<post_pc, post_ret>>
    /\ chunk_answers' =
          [chunk_answers EXCEPT ![c] =
             [first_ok |-> IF r = "Ok" /\ @.first_ok = 0 THEN Len(chunk_posts[c])
                           ELSE @.first_ok,
              last |-> r]]
    /\ UNCHANGED <<postFrame, post_fn, signed, n_chunks, post_buffer,
                   tx_pc, tx_retries, tx_status, tx_posts, tx_sleeps, tx_ret, tx_answers,
                   chunk_next, chunk_posts, chunk_sleeps>>

\* sleep(CHUNKS_RETRY_SLEEP); retries += 1; resp = post_chunk(&chunk)
ChunkRetry(c) ==
    /\ c \in DOMAIN chunk_tasks
    /\ chunk_tasks[c].pc = "sleep"
    /\ chunk_sleeps' = [chunk_sleeps EXCEPT ![c] = @ + CHUNKS_RETRY_SLEEP]
    /\ chunk_tasks' = [chunk_tasks EXCEPT ![c] =
                         [pc |-> "send", retries |-> @.retries + 1]]
    /\ chunk_posts' = [chunk_posts EXCEPT ![c] = Append(@, c)]
    /\ UNCHANGED <<postFrame, post_fn, signed, n_chunks, post_buffer, post_pc,
                   post_ret, tx_pc, tx_retries, tx_status, tx_posts, tx_sleeps,
                   tx_ret, tx_answers, chunk_next, chunk_results, chunk_answers>>

\* ---- post_transaction_chunks

\* The call of post_transaction_chunks: an empty id returns
\* UnsignedTransaction, else the transaction without data goes to
\* post_transaction.
post_transaction_chunks_call ==
    /\ post_fn = "post_transaction_chunks"
    /\ post_pc = "call"
    /\ IF ~signed
       THEN /\ post_ret' = "UnsignedTransaction"
            /\ post_pc' = "returned"
            /\ UNCHANGED tx_pc
       ELSE /\ post_pc' = "header"
            /\ tx_pc' = "call"
            /\ UNCHANGED post_ret
    /\ UNCHANGED <<postFrame, post_fn, signed, n_chunks, post_buffer,
                   tx_retries, tx_status, tx_posts, tx_sleeps, tx_ret, tx_answers,
                   chunk_next, chunk_tasks, chunk_posts, chunk_sleeps, chunk_results,
                   chunk_answers>>

\* upload_transaction_chunks_stream: buffer_unordered(buffer) takes the next
\* chunk index and the closure starts its post_chunk_with_retries.
ChunkPull ==
    /\ post_fn = "post_transaction_chunks"
    /\ post_pc = "chunks"
    /\ Cardinality(DOMAIN chunk_tasks) < post_buffer
    /\ chunk_next < n_chunks
    /\ chunk_next' = chunk_next + 1
    /\ chunk_tasks' = With(chunk_tasks, chunk_next + 1, NewChunkTask)
    /\ chunk_posts' = [chunk_posts EXCEPT ![chunk_next + 1] = Append(@, chunk_next + 1)]
    /\ UNCHANGED <<postFrame, post_fn, signed, n_chunks, post_buffer, post_pc,
                   post_ret, tx_pc, tx_retries, tx_status, tx_posts, tx_sleeps,
                   tx_ret, tx_answers, chunk_sleeps, chunk_results,
                   chunk_answers>>

\* A collection that returns what the last chunk returned.
LastResult(results) ==
    IF results = <<>> THEN "Ok" ELSE results[Len(results)].resp

\* The first Err of the collected results, in the order they were yielded.
FirstErr(results) ==
    LET errs == {j \in 1..Len(results) : results[j].resp # "Ok"}
    IN  IF errs = {} THEN "Ok"
        ELSE results[CHOOSE j \in errs : \A l \in errs : j <= l].resp

\* The chunk stream is exhausted: collect() is done, and collecting the
\* results into one Result returns the first Err or Ok((id, reward)).
ChunksCollected ==
    /\ post_fn = "post_transaction_chunks"
    /\ post_pc = "chunks"
    /\ chunk_next = n_chunks
    /\ DOMAIN chunk_tasks = {}
    /\ post_ret' = FirstErr(chunk_results)
    /\ post_pc' = "returned"
    /\ UNCHANGED <<postFrame, post_fn, signed, n_chunks, post_buffer,
                   tx_pc, tx_retries, tx_status, tx_posts, tx_sleeps, tx_ret, tx_answers,
                   chunk_next, chunk_tasks, chunk_posts, chunk_sleeps, chunk_results,
                   chunk_answers>>

NextPost ==
    \/ post_transaction_call
    \/ post_chunk_with_retries_call
    \/ post_transaction_chunks_call
    \/ TxEnter
    \/ TxLoop
    \/ \E r \in TxAnswers : TxAnswer(r)
    \/ TxSleep
    \/ TxReturn
    \/ ChunkPull
    \/ \E c \in DOMAIN chunk_tasks, r \in ChunkAnswers : ChunkAnswer(c, r)
    \/ \E c \in DOMAIN chunk_tasks : ChunkRetry(c)
    \/ ChunksCollected

\* The two retry loops, each in one call of its function.
NextRetry ==
    \/ post_transaction_call
    \/ post_chunk_with_retries_call
    \/ TxEnter
    \/ TxLoop
    \/ \E r \in TxAnswers : TxAnswer(r)
    \/ TxSleep
    \/ TxReturn
    \/ \E c \in DOMAIN chunk_tasks, r \in ChunkAnswers : ChunkAnswer(c, r)
    \/ \E c \in DOMAIN chunk_tasks : ChunkRetry(c)

(***************************************************************************)
(* upload_file_from_path, upload_raw_data                                  *)
(***************************************************************************)
\* Data lengths around MAX_TX_DATA.
DataLens == {0, 9999999, 10000000, 10000001, 12000000}

IdleUpload ==
    /\ up_fn = "none"
    /\ up_path = "none"
    /\ up_arg_len = 0
    /\ up_pc = "idle"
    /\ up_tx = [via |-> "none", data_len |-> 0, chunks_buffer |-> 0]
    /\ up_ret = "none"

\* The file system and the arguments of the call.
InitUploadInputs ==
    /\ paths_iter = <<>>
    /\ data_size = 0
    /\ \/ /\ up_fn = "upload_file_from_path"
          /\ up_path \in Paths
          /\ file_len \in [Paths -> DataLens]
          /\ up_arg_len = 0
       \/ /\ up_fn = "upload_raw_data"
          /\ up_path = "none"
          /\ file_len = [p \in Paths |-> 0]
          /\ up_arg_len \in DataLens

InitUpload ==
    /\ up_pc = "call"
    /\ up_tx = [via |-> "none", data_len |-> 0, chunks_buffer |-> 0]
    /\ up_ret = "none"

\* signed_transaction.data.0.len(): the bytes read from file_path, or the
\* data argument.
UploadDataLen ==
    IF up_fn = "upload_file_from_path" THEN file_len[up_path] ELSE up_arg_len

\* upload_raw_data, after signing: the same choice as upload_file_from_path.
RawUploadRoute(len) ==
    IF len > MAX_TX_DATA
    THEN [pc |-> "post_chunks", data_len |-> len, chunks_buffer |-> 100]
    ELSE [pc |-> "post_tx", data_len |-> len, chunks_buffer |-> 0]

\* The transaction is created from the data and signed, and its posting
\* starts: post_transaction_chunks(signed_transaction, 100) or
\* post_transaction(&signed_transaction).
UploadSigned ==
    /\ up_pc = "call"
    /\ LET route == IF up_fn = "upload_file_from_path"
                    THEN UploadRoute(UploadDataLen)
                    ELSE RawUploadRoute(UploadDataLen)
       IN  /\ up_pc' = route.pc
           /\ up_tx' = [via |-> route.pc, data_len |-> route.data_len,
                        chunks_buffer |-> route.chunks_buffer]
    /\ UNCHANGED <<uploadFrame, up_fn, up_path, up_arg_len, up_ret>>

\* A `?` returns early: price terms, file read, anchor fetch, or the POSTs.
UploadError ==
    /\ up_pc \in {"call", "post_tx", "post_chunks"}
    /\ up_pc' = "returned"
    /\ up_ret' = "Err"
    /\ UNCHANGED <<uploadFrame, up_fn, up_path, up_arg_len, up_tx>>

\* The gateway accepted the transaction: Ok(status) is returned.
UploadAccepted ==
    /\ up_pc \in {"post_tx", "post_chunks"}
    /\ up_pc' = "returned"
    /\ up_ret' = "Ok"
    /\ UNCHANGED <<uploadFrame, up_fn, up_path, up_arg_len, up_tx>>

NextUpload == UploadSigned \/ UploadError \/ UploadAccepted

(***************************************************************************)
(* Data items, signing and the bundle codec                                *)
(***************************************************************************)
\* Byte strings are sequences of numbers 0..255.
Bytes(b, n) == [j \in 1..n |-> b]

\* The widths of the fields of a data item and of a bundle.
SignatureLen == 512
OwnerLen == 512
IdLen == 32
DeepHashLen == 48
CountLen == 8
PaddingLen == 24

\* n.to_le_bytes() of a u64, for n below 2^30.
ToLeBytes(n, width) ==
    [j \in 1..width |->
        IF j = 1 THEN n % 256
        ELSE IF j = 2 THEN (n \div 256) % 256
        ELSE IF j = 3 THEN (n \div 65536) % 256
        ELSE IF j = 4 THEN n \div 16777216
        ELSE 0]

\* A length no byte string of the model has: a u64 of 2^30 or more.
TooLong == 2000000000

\* u64::from_le_bytes(result).
FromLeBytes(b) ==
    IF (\E j \in 5..Len(b) : b[j] # 0) \/ (Len(b) >= 4 /\ b[4] >= 64)
    THEN TooLong
    ELSE (IF Len(b) >= 1 THEN b[1] ELSE 0)
         + (IF Len(b) >= 2 THEN b[2] * 256 ELSE 0)
         + (IF Len(b) >= 3 THEN b[3] * 65536 ELSE 0)
         + (IF Len(b) >= 4 THEN b[4] * 16777216 ELSE 0)

\* The flattening of a sequence of byte strings.
RECURSIVE Flatten(_)
Flatten(ss) == IF ss = <<>> THEN <<>> ELSE Head(ss) \o Flatten(Tail(ss))

\* The first byte of b, if it has one.
FirstByte(b) == IF b = <<>> THEN <<>> ELSE <<b[1]>>

\* b followed by zero bytes up to length n, cut at n.
PadTo(b, n) == [j \in 1..n |-> IF j <= Len(b) THEN b[j] ELSE 0]

\* RSA keys: that of this client and that of another uploader.
ClientKey == 1
OtherKey == 2
Keys == {ClientKey, OtherKey}

\* keypair_modulus(): the 512-byte modulus of a key.
Modulus(key) == Bytes(key, OwnerLen)

\* A tag with a one-byte name and a one-byte value.
Tag(name, value) == [name |-> <<name>>, value |-> <<value>>]
UserAgentTag == Tag(85, 97)
ContentTypeTag == Tag(67, 105)

\* The Avro zig-zag long of a small non-negative number: one byte.
ZigZag(n) == 2 * n

\* The Avro encoding of a tag list: the count, name and value of every tag
\* with their lengths, and the closing zero-count block.
AvroTags(tags) ==
    IF tags = <<>> THEN <<0>>
    ELSE <<ZigZag(Len(tags))>>
         \o Flatten([j \in 1..Len(tags) |->
                <<ZigZag(Len(tags[j].name))>> \o tags[j].name
                \o <<ZigZag(Len(tags[j].value))>> \o tags[j].value])
         \o <<0>>

\* The tag list read from its Avro encoding b, from position pos on, with
\* `left` tags to go.
RECURSIVE AvroTagsFrom(_, _, _)
AvroTagsFrom(b, pos, left) ==
    IF left = 0 THEN <<>>
    ELSE LET nlen == b[pos] \div 2
             name == SubSeq(b, pos + 1, pos + nlen)
             vpos == pos + nlen + 1
             vlen == b[vpos] \div 2
             value == SubSeq(b, vpos + 1, vpos + vlen)
         IN  <<[name |-> name, value |-> value]>>
             \o AvroTagsFrom(b, vpos + vlen + 1, left - 1)

FromAvroTags(b) == IF b = <<0>> THEN <<>> ELSE AvroTagsFrom(b, 2, b[1] \div 2)

\* A data item: create_data_item leaves owner, signature and id empty; target
\* and anchor are never set.
DataItem(data, tags) ==
    [id |-> <<>>, signature |-> <<>>, owner |-> <<>>, tags |-> tags, data |-> data]

\* create_data_item(data, tags, auto_content_tag): the User-Agent tag is
\* added, and the Content-Type tag when asked for.
create_data_item(data, tags, auto_content_tag) ==
    DataItem(data,
             tags \o <<UserAgentTag>>
                  \o (IF auto_content_tag THEN <<ContentTypeTag>> ELSE <<>>))

\* data_item.to_deep_hash_item() and crypto.deep_hash(..): the digest of
\* owner, tag bytes and data.  A digest is taken to be free of collisions:
\* it is the fields themselves, with their lengths, padded to 48 bytes.
DeepHashOfDataItem(item) ==
    PadTo(<<100, Len(item.owner)>> \o FirstByte(item.owner)
          \o <<Len(AvroTags(item.tags))>> \o AvroTags(item.tags)
          \o <<Len(item.data)>> \o item.data,
          DeepHashLen)

\* crypto.sign(&deep_hash) with the given key: RSA-PSS, 512 bytes.
Sign(key, deep_hash) == PadTo(<<key>> \o deep_hash, SignatureLen)

\* crypto.verify(&signature, &deep_hash) with the public half of the key.
Verify(key, signature, deep_hash) == signature = Sign(key, deep_hash)

\* crypto.hash_sha256(&signature): 32 bytes, free of collisions on the
\* signatures of the model.
Sha256(signature) == SubSeq(signature, 1, IdLen)

\* A sign_data_item that takes the deep hash before it sets the owner.
sign_data_item_hash_first(key, data_item) ==
    LET signature == Sign(key, DeepHashOfDataItem(data_item))
    IN  [data_item EXCEPT !.owner = Modulus(key),
                          !.signature = signature,
                          !.id = Sha256(signature)]

\* sign_data_item(data_item) by the client that holds `key`.
sign_data_item(key, data_item) ==
    LET owned == [data_item EXCEPT !.owner = Modulus(key)]
        signature == Sign(key, DeepHashOfDataItem(owned))
    IN  [owned EXCEPT !.signature = signature, !.id = Sha256(signature)]

\* A transaction, as far as signing reads and writes it.
Transaction(owner, data, reward) ==
    [id |-> <<>>, signature |-> <<>>, owner |-> owner, data |-> data, reward |-> reward]

\* transaction.to_deep_hash_item() and crypto.deep_hash(..).
DeepHashOfTransaction(tx) ==
    PadTo(<<2, Len(tx.owner)>> \o FirstByte(tx.owner)
          \o <<Len(tx.data)>> \o tx.data \o <<tx.reward>>,
          DeepHashLen)

\* sign_transaction(transaction) by the client that holds `key`.
sign_transaction(key, tx) ==
    LET signature == Sign(key, DeepHashOfTransaction(tx))
    IN  [tx EXCEPT !.signature = signature, !.id = Sha256(signature)]

\* The serialized body of a data item: signature type, signature, owner, no
\* target, no anchor, tag count, tag bytes length, tag bytes, data.
SerializeDataItem(item) ==
    ToLeBytes(1, 2) \o item.signature \o item.owner \o <<0>> \o <<0>>
    \o ToLeBytes(Len(item.tags), CountLen)
    \o ToLeBytes(Len(AvroTags(item.tags)), CountLen)
    \o AvroTags(item.tags) \o item.data

\* The length of a serialized data item before its tag bytes.
ItemFixedLen == 2 + SignatureLen + OwnerLen + 1 + 1 + CountLen + CountLen

\* DataItem::deserialize(bytes): the item, or failed when the bytes end
\* before its fields do.
DeserializeDataItem(b) ==
    IF Len(b) < ItemFixedLen THEN [ok |-> FALSE, item |-> DataItem(<<>>, <<>>)]
    ELSE LET signature == SubSeq(b, 3, 2 + SignatureLen)
             owner == SubSeq(b, 3 + SignatureLen, 2 + SignatureLen + OwnerLen)
             tags_len == FromLeBytes(SubSeq(b, ItemFixedLen - CountLen + 1, ItemFixedLen))
         IN  IF Len(b) < ItemFixedLen + tags_len
             THEN [ok |-> FALSE, item |-> DataItem(<<>>, <<>>)]
             ELSE [ok |-> TRUE,
                   item |-> [id |-> Sha256(signature),
                             signature |-> signature,
                             owner |-> owner,
                             tags |-> FromAvroTags(SubSeq(b, ItemFixedLen + 1,
                                                          ItemFixedLen + tags_len)),
                             data |-> SubSeq(b, ItemFixedLen + tags_len + 1, Len(b))]]

\* data_item.to_bundle_item(): the index entry (length of the body, 24 zero
\* bytes, id) and the body.
to_bundle_item(item) ==
    LET binary == SerializeDataItem(item)
    IN  [header |-> ToLeBytes(Len(binary), CountLen) \o Bytes(0, PaddingLen) \o item.id,
         binary |-> binary]

\* A bundle whose bodies are laid out in the reverse order of the index.
create_bundle_bodies_reversed(items) ==
    LET n == Len(items)
    IN  ToLeBytes(n, CountLen) \o Bytes(0, PaddingLen)
        \o Flatten([j \in 1..n |-> to_bundle_item(items[j]).header])
        \o Flatten([j \in 1..n |-> to_bundle_item(items[n + 1 - j]).binary])

\* create_bundle_from_data_items(data_items): the binary it returns.
create_bundle_from_data_items(items) ==
    ToLeBytes(Len(items), CountLen) \o Bytes(0, PaddingLen)
    \o Flatten([j \in 1..Len(items) |-> to_bundle_item(items[j]).header])
    \o Flatten([j \in 1..Len(items) |-> to_bundle_item(items[j]).binary])

BundleHeader == CountLen + PaddingLen
IndexEntryLen == CountLen + PaddingLen + IdLen

\* deserialize_bundle, parse headers: the body lengths and the ids of the
\* index, read from a bundle that is long enough to hold the index.
IndexLens(bin, n) ==
    [j \in 1..n |->
        FromLeBytes(SubSeq(bin, BundleHeader + (j - 1) * IndexEntryLen + 1,
                           BundleHeader + (j - 1) * IndexEntryLen + CountLen))]
IndexIds(bin, n) ==
    [j \in 1..n |->
        SubSeq(bin, BundleHeader + j * IndexEntryLen - IdLen + 1,
               BundleHeader + j * IndexEntryLen)]

\* The position before the body of item j.
RECURSIVE BodyStart(_, _, _)
BodyStart(lens, n, j) ==
    IF j = 1 THEN BundleHeader + n * IndexEntryLen
    ELSE BodyStart(lens, n, j - 1) + lens[j - 1]

\* What deserialize_bundle does with one item.
ItemOutcome(key, bin, lens, ids, n, j) ==
    LET start == BodyStart(lens, n, j)
    IN  IF start + lens[j] > Len(bin)
        THEN [tag |-> "panic", item |-> DataItem(<<>>, <<>>)]
        ELSE LET d == DeserializeDataItem(SubSeq(bin, start + 1, start + lens[j]))
             IN  IF ~d.ok THEN [tag |-> "Err", item |-> d.item]
                 ELSE IF ~Verify(key, d.item.signature, DeepHashOfDataItem(d.item))
                      THEN [tag |-> "panic", item |-> d.item]
                      ELSE [tag |-> "Ok", item |-> [d.item EXCEPT !.id = ids[j]]]

\* deserialize_bundle(bundle) by the client that holds `key`: every item is
\* verified with self.crypto; an unwrap that fails panics, the first item
\* reached that fails to parse makes the result Err.
deserialize_bundle(key, bin) ==
    IF Len(bin) < BundleHeader THEN [tag |-> "panic", items |-> <<>>]
    ELSE LET n == FromLeBytes(SubSeq(bin, 1, CountLen))
         IN  IF n = TooLong \/ Len(bin) < BundleHeader + n * IndexEntryLen
             THEN [tag |-> "panic", items |-> <<>>]
             ELSE LET lens == IndexLens(bin, n)
                      ids == IndexIds(bin, n)
                      out == [j \in 1..n |-> ItemOutcome(key, bin, lens, ids, n, j)]
                      bad == {j \in 1..n : out[j].tag # "Ok"}
                      first == CHOOSE j \in bad : \A i \in bad : j <= i
                  IN  IF bad = {} THEN [tag |-> "Ok", items |-> [j \in 1..n |-> out[j].item]]
                      ELSE [tag |-> out[first].tag, items |-> <<>>]

\* The data a data item or a transaction is made of.
Datas == {<<>>, <<7, 9>>}

\* An item made elsewhere: it names `owner` as its owner and carries a
\* signature made with the key of `signer` over its deep hash.  The two are
\* the same in an item that was signed by its owner.
ReceivedItem(signer, owner, data) ==
    LET item == [create_data_item(data, <<>>, FALSE) EXCEPT !.owner = Modulus(owner)]
        signature == Sign(signer, DeepHashOfDataItem(item))
    IN  [item EXCEPT !.signature = signature, !.id = Sha256(signature)]

NoTransaction == Transaction(<<>>, <<>>, 0)

\* The first k bytes of a bundle: what is left of it when it was cut short.
Truncated(bin, k) == SubSeq(bin, 1, k)

\* A bundle with the byte at pos changed.
Tampered(bin, pos) == [bin EXCEPT ![pos] = (bin[pos] + 1) % 256]

NoDamage == [kind |-> "none", bin |-> <<>>]

\* The malformed bundles made from a well-formed one of n items: cut short
\* inside the 32-byte header or inside the index, cut short inside the last
\* body, the signature of item j changed in its body, the id of item j
\* changed in the index.
MalformedBundles(bin) ==
    LET n == FromLeBytes(SubSeq(bin, 1, CountLen))
        lens == IndexLens(bin, n)
    IN  {[kind |-> "header", bin |-> Truncated(bin, k)] :
            k \in {0, CountLen, BundleHeader - 1}
                  \cup {BundleHeader + j * IndexEntryLen - 1 : j \in 1..n}}
        \cup {[kind |-> "body", bin |-> Truncated(bin, Len(bin) - 1)] : j \in 1..(IF n > 0 THEN 1 ELSE 0)}
        \cup {[kind |-> "signature", bin |-> Tampered(bin, BodyStart(lens, n, j) + 3)] :
                 j \in 1..n}
        \cup {[kind |-> "id", bin |-> Tampered(bin, BundleHeader + j * IndexEntryLen)] :
                 j \in 1..n}

IdleBundle ==
    /\ data_items = <<>>
    /\ item_src = <<>>
    /\ bd_pc = "idle"
    /\ bundle = <<>>
    /\ decoded = [tag |-> "none", items |-> <<>>]
    /\ damaged = NoDamage
    /\ transaction = NoTransaction
    /\ tn_pc = "idle"

\* No data item yet; a transaction that create_transaction built with the
\* client's modulus as owner.
InitBundle ==
    /\ data_items = <<>>
    /\ item_src = <<>>
    /\ bd_pc = "items"
    /\ bundle = <<>>
    /\ decoded = [tag |-> "none", items |-> <<>>]
    /\ damaged = NoDamage
    /\ transaction \in {Transaction(Modulus(ClientKey), d, 5) : d \in Datas}
    /\ tn_pc = "created"

\* create_data_item and sign_data_item: the client makes one more item.
sign_data_item_call ==
    /\ bd_pc = "items"
    /\ Len(data_items) < MaxItems
    /\ \E d \in Datas, auto \in BOOLEAN :
          data_items' = Append(data_items,
                               sign_data_item(ClientKey, create_data_item(d, <<>>, auto)))
    /\ item_src' = Append(item_src, "signed")
    /\ UNCHANGED <<bundleFrame, damaged, bd_pc, bundle, decoded, transaction, tn_pc>>

\* An item made elsewhere joins the list.
ReceiveItem ==
    /\ bd_pc = "items"
    /\ Len(data_items) < MaxItems
    /\ \E d \in Datas, signer \in Keys, owner \in Keys :
          /\ signer # ClientKey \/ owner # ClientKey
          /\ data_items' = Append(data_items, ReceivedItem(signer, owner, d))
    /\ item_src' = Append(item_src, "received")
    /\ UNCHANGED <<bundleFrame, damaged, bd_pc, bundle, decoded, transaction, tn_pc>>

\* create_bundle_from_data_items(data_items).
create_bundle_from_data_items_call ==
    /\ bd_pc = "items"
    /\ bundle' = create_bundle_from_data_items(data_items)
    /\ bd_pc' = "encoded"
    /\ UNCHANGED <<bundleFrame, damaged, data_items, item_src, decoded, transaction, tn_pc>>

\* deserialize_bundle(bundle), by the same client.
deserialize_bundle_call ==
    /\ bd_pc = "encoded"
    /\ decoded' = deserialize_bundle(ClientKey, bundle)
    /\ bd_pc' = "decoded"
    /\ UNCHANGED <<bundleFrame, damaged, data_items, item_src, bundle, transaction, tn_pc>>

\* deserialize_bundle(bundle) of a bundle that reached the client malformed.
deserialize_malformed_bundle_call ==
    /\ bd_pc = "encoded"
    /\ \E m \in MalformedBundles(bundle) :
          /\ damaged' = m
          /\ decoded' = deserialize_bundle(ClientKey, m.bin)
    /\ bd_pc' = "decoded_malformed"
    /\ UNCHANGED <<bundleFrame, data_items, item_src, bundle, transaction, tn_pc>>

\* sign_transaction(transaction).
sign_transaction_call ==
    /\ tn_pc = "created"
    /\ transaction' = sign_transaction(ClientKey, transaction)
    /\ tn_pc' = "signed"
    /\ UNCHANGED <<bundleFrame, damaged, data_items, item_src, bd_pc, bundle, decoded>>

NextBundle ==
    \/ sign_data_item_call
    \/ ReceiveItem
    \/ create_bundle_from_data_items_call
    \/ deserialize_bundle_call
    \/ deserialize_malformed_bundle_call
    \/ sign_transaction_call

(***************************************************************************)
(* The status store: write_status, read_status, get_status, update_status  *)
(***************************************************************************)
\* Option<T>: None is <<>>, Some(v) is <<v>>.
None == <<>>
Some(v) == <<v>>

\* Transaction ids; the empty one is that of an unsigned transaction.
Ids == {"", "tx1", "tx2"}
\* A file stem given by the caller of write_status.
Stems == {"custom"}
\* number_of_confirmations values the gateway reports.
Confirmations == {1, 25}

\* The confirmation payload of the gateway, as parsed into raw_status.
RawStatus(n) ==
    [block_height |-> 100, block_indep_hash |-> "blk", number_of_confirmations |-> n]

\* Status::default(): nothing known yet.
DefaultStatus ==
    [id |-> "", status |-> "Submitted", file_path |-> None,
     content_type |-> "application/octet-stream", reward |-> 0,
     last_modified |-> 0, raw_status |-> None]

\* mime_guess::from_path(file_path), else application/octet-stream.
ContentTypeOf(path) == IF path = "a" THEN "image/png" ELSE "application/octet-stream"

\* The reward of the transaction with the given id.
RewardOf(id) == IF id = "tx1" THEN 7 ELSE IF id = "tx2" THEN 9 ELSE 0

\* The Status values handed to write_status: as built after an upload
\* (Submitted, no raw_status) or as refreshed (Confirmed with raw_status),
\* with or without a file_path, with a signed or an empty id.
StatusArgs ==
    {[id |-> i, status |-> sr[1], file_path |-> fp,
      content_type |-> IF fp = None THEN "application/octet-stream"
                       ELSE ContentTypeOf(fp[1]),
      reward |-> RewardOf(i), last_modified |-> 0, raw_status |-> sr[2]] :
        i \in Ids,
        fp \in {None} \cup {Some(q) : q \in Paths},
        sr \in {<<"Submitted", None>>, <<"Confirmed", Some(RawStatus(1))>>}}

\* serde_json::to_string(&status): a JSON object with one member per field;
\* an absent Option is null.
StatusToJson(s) ==
    [json |-> "object",
     members |-> {<<"id", Some(s.id)>>, <<"status", Some(s.status)>>,
                  <<"file_path", s.file_path>>,
                  <<"content_type", Some(s.content_type)>>,
                  <<"reward", Some(s.reward)>>,
                  <<"last_modified", Some(s.last_modified)>>,
                  <<"raw_status", s.raw_status>>}]

\* The value of member k of a JSON object.
Member(j, k) == (CHOOSE m \in j.members : m[1] = k)[2]

\* serde_json::from_str::<Status>(&data).
StatusFromJson(j) ==
    [id |-> Member(j, "id")[1], status |-> Member(j, "status")[1],
     file_path |-> Member(j, "file_path"),
     content_type |-> Member(j, "content_type")[1],
     reward |-> Member(j, "reward")[1],
     last_modified |-> Member(j, "last_modified")[1],
     raw_status |-> Member(j, "raw_status")]

\* blake3::hash(file_path.to_str().unwrap().as_bytes()).to_string(): the hex
\* digest of the path string as it is spelled; distinct strings give
\* distinct digests.
Blake3(path) == <<"blake3", path>>

\* What a call returns: Ok(status), Ok(()) or Err(error).
Ok(s) == [tag |-> "Ok", status |-> s, err |-> "", code |-> 0]
Err(e, c) == [tag |-> "Err", status |-> DefaultStatus, err |-> e, code |-> c]
NoRet == [tag |-> "none", status |-> DefaultStatus, err |-> "", code |-> 0]

\* write_status with a file stem that ignores the status's file_path.
FileStemTxidOnly(status, file_stem) ==
    IF file_stem # None THEN Some(<<"stem", file_stem[1]>>)
    ELSE Some(<<"txid_", status.id>>)

\* write_status: the file stem the sidecar is written under, None when the
\* call returns UnsignedTransaction before writing.
FileStem(status, file_stem) ==
    IF file_stem # None THEN Some(<<"stem", file_stem[1]>>)
    ELSE IF status.file_path # None
         THEN IF status.id = "" THEN None
              ELSE Some(Blake3(status.file_path[1]))
         ELSE Some(<<"txid_", status.id>>)

\* A write_status that leaves a sidecar that already exists as it is.
write_status_create_new(dir, status, file_stem) ==
    LET stem == FileStem(status, file_stem)
    IN  IF stem = None
        THEN [dir |-> dir, ret |-> Err("UnsignedTransaction", 0)]
        ELSE IF stem[1] \in DOMAIN dir
             THEN [dir |-> dir, ret |-> Ok(DefaultStatus)]
             ELSE [dir |-> With(dir, stem[1], StatusToJson(status)),
                   ret |-> Ok(DefaultStatus)]

\* write_status(status, log_dir, file_stem): the directory afterwards and
\* what is returned; fs::write replaces the whole file.
write_status(dir, status, file_stem) ==
    LET stem == FileStem(status, file_stem)
    IN  IF stem = None
        THEN [dir |-> dir, ret |-> Err("UnsignedTransaction", 0)]
        ELSE [dir |-> With(dir, stem[1], StatusToJson(status)), ret |-> Ok(DefaultStatus)]

\* read_status(file_path, log_dir).
read_status(dir, file_path) ==
    LET status_path == Blake3(file_path)
    IN  IF status_path \in DOMAIN dir
        THEN Ok(StatusFromJson(dir[status_path]))
        ELSE Err("StatusNotFound", 0)

\* The answers of the gateway to GET tx/{id}/status: an HTTP response with a
\* code and a body, or no response at all.
GetAnswers ==
    {[kind |-> "http", code |-> 200, body |-> "Pending", confirmations |-> 0]}
    \cup {[kind |-> "http", code |-> 200, body |-> "json", confirmations |-> n] :
             n \in Confirmations}
    \cup {[kind |-> "http", code |-> 200, body |-> "not json", confirmations |-> 0]}
    \cup {[kind |-> "http", code |-> c, body |-> "", confirmations |-> 0] :
             c \in {202, 404, 500}}
    \cup {[kind |-> "transport", code |-> 0, body |-> "", confirmations |-> 0]}

NoAnswer == [kind |-> "none", code |-> 0, body |-> "", confirmations |-> 0]

\* A classification that takes every 200 answer for a confirmation.
GetStatusAllConfirmed(id, resp) ==
    IF resp.kind = "transport" THEN Err("reqwest", 0)
    ELSE IF resp.code = 200
         THEN Ok([DefaultStatus EXCEPT !.id = id, !.status = "Confirmed",
                     !.raw_status = Some(RawStatus(resp.confirmations))])
    ELSE IF resp.code = 202 THEN Ok([DefaultStatus EXCEPT !.id = id, !.status = "Pending"])
    ELSE IF resp.code = 404 THEN Ok([DefaultStatus EXCEPT !.id = id, !.status = "NotFound"])
    ELSE Err("ArweaveNetworkError", resp.code)

\* get_status(id), given the gateway's answer to its GET.
GetStatus(id, resp) ==
    IF resp.kind = "transport" THEN Err("reqwest", 0)
    ELSE IF resp.code = 200
         THEN IF resp.body = "Pending"
              THEN Ok([DefaultStatus EXCEPT !.id = id, !.status = "Pending"])
              ELSE IF resp.body = "json"
                   THEN Ok([DefaultStatus EXCEPT !.id = id, !.status = "Confirmed",
                               !.raw_status = Some(RawStatus(resp.confirmations))])
                   ELSE Err("serde_json", 0)
    ELSE IF resp.code = 202 THEN Ok([DefaultStatus EXCEPT !.id = id, !.status = "Pending"])
    ELSE IF resp.code = 404 THEN Ok([DefaultStatus EXCEPT !.id = id, !.status = "NotFound"])
    ELSE Err("ArweaveNetworkError", resp.code)

\* An update that stores the Status the GET returned.
UpdatedStatusFromGet(status, trans_status, time) ==
    [trans_status EXCEPT !.last_modified = time]

\* An update that leaves raw_status as it was stored.
UpdatedStatusKeepsRaw(status, trans_status, time) ==
    [status EXCEPT !.last_modified = time, !.status = trans_status.status]

\* update_status, after the GET: the three fields it assigns.
UpdatedStatus(status, trans_status, time) ==
    [status EXCEPT !.last_modified = time,
                   !.status = trans_status.status,
                   !.raw_status = trans_status.raw_status]

\* An update_status that goes on to write whatever get_status returned.
UpdateProceedsAlways(r) == TRUE

\* update_status, `self.get_status(&status.id).await?`: it goes on only with
\* an Ok.
UpdateProceeds(r) == r.tag = "Ok"

\* The paths an upload is called with: those of Paths, and a second,
\* absolute spelling of the file "a".
UploadPaths == Paths \cup {"/cwd/a"}

\* The absolute path of the file a path names, for a client running in
\* /cwd.
AbsolutePath(path) ==
    IF path = "a" THEN "/cwd/a" ELSE IF path = "b" THEN "/cwd/b" ELSE path

\* What the gateway answers to an upload, after the retries: the upload
\* fails before anything is posted (file read, anchor, signing), the whole
\* transaction is posted to tx/ (route "tx"), or its header is posted to tx/
\* and then its chunks to chunk/ (route "chunks"); no chunk is posted when
\* the header was rejected.  log is TRUE when the call was given a log_dir.
UploadAnswers ==
    {a \in [route : {"none", "tx", "chunks"}, header : {"none", "accepted", "rejected"},
            chunks : {"none", "accepted", "rejected"}, log : BOOLEAN] :
        \/ a.route = "none" /\ a.header = "none" /\ a.chunks = "none"
        \/ a.route = "tx" /\ a.header # "none" /\ a.chunks = "none"
        \/ a.route = "chunks" /\ a.header = "rejected" /\ a.chunks = "none"
        \/ a.route = "chunks" /\ a.header = "accepted" /\ a.chunks # "none"}

NoPost == [route |-> "none", header |-> "none", chunks |-> "none", log |-> FALSE]

\* An upload that takes the accepted header for the accepted upload.
PostedHeaderOnly(answer) == answer.header = "accepted"

\* post_transaction, resp. post_transaction_chunks, returned Ok((id, reward)):
\* the tx POST was answered 200 and, with chunks, every chunk was accepted.
Posted(answer) ==
    /\ answer.header = "accepted"
    /\ answer.route = "chunks" => answer.chunks = "accepted"

\* The Status an upload builds from the posted transaction.
UploadStatus(id, file_path) ==
    [DefaultStatus EXCEPT !.id = id, !.reward = RewardOf(id),
                          !.file_path = file_path,
                          !.content_type = IF file_path = None
                                           THEN "application/octet-stream"
                                           ELSE ContentTypeOf(file_path[1])]

\* The end of upload_file_from_path and upload_raw_data: the posting
\* returned an error (`?`), or the status is built, written when a log_dir
\* was given, and returned.
Upload(dir, id, file_path, answer) ==
    IF ~Posted(answer) THEN [dir |-> dir, ret |-> Err("upload", 0)]
    ELSE LET status == UploadStatus(id, file_path)
             w == IF answer.log THEN write_status(dir, status, None)
                  ELSE [dir |-> dir, ret |-> Ok(DefaultStatus)]
         IN  [dir |-> w.dir, ret |-> IF w.ret.tag = "Err" THEN w.ret ELSE Ok(status)]

IdleStore ==
    /\ log_dir = <<>>
    /\ now = 0
    /\ st_calls = 0
    /\ st_fn = "none"
    /\ st_pc = "idle"
    /\ st_status = DefaultStatus
    /\ st_path = ""
    /\ st_stem = None
    /\ st_resp = NoAnswer
    /\ st_gets = 0
    /\ st_before = <<>>
    /\ st_post = NoPost
    /\ st_ret = NoRet

\* An empty log_dir; the clock has passed the creation time of the statuses.
InitStore ==
    /\ log_dir = <<>>
    /\ now = 1
    /\ st_calls = 0
    /\ st_fn = "none"
    /\ st_pc = "idle"
    /\ st_status = DefaultStatus
    /\ st_path = ""
    /\ st_stem = None
    /\ st_resp = NoAnswer
    /\ st_gets = 0
    /\ st_before = <<>>
    /\ st_post = NoPost
    /\ st_ret = NoRet

\* No call is running and another one may be made.
CanCall == st_pc \in {"idle", "returned"} /\ st_calls < MaxCalls

\* write_status(status, log_dir, file_stem) is called and returns.
write_status_call ==
    /\ CanCall
    /\ \E s \in StatusArgs, fs \in {None} \cup {Some(x) : x \in Stems} :
          /\ st_status' = s
          /\ st_stem' = fs
          /\ log_dir' = write_status(log_dir, s, fs).dir
          /\ st_ret' = write_status(log_dir, s, fs).ret
    /\ st_fn' = "write_status"
    /\ st_pc' = "returned"
    /\ st_calls' = st_calls + 1
    /\ st_path' = ""
    /\ st_resp' = NoAnswer
    /\ st_gets' = 0
    /\ st_before' = log_dir
    /\ st_post' = NoPost
    /\ UNCHANGED <<storeFrame, now>>

\* read_status(file_path, log_dir) is called and returns.
read_status_call ==
    /\ CanCall
    /\ \E p \in Paths :
          /\ st_path' = p
          /\ st_ret' = read_status(log_dir, p)
    /\ st_fn' = "read_status"
    /\ st_pc' = "returned"
    /\ st_calls' = st_calls + 1
    /\ st_status' = DefaultStatus
    /\ st_stem' = None
    /\ st_resp' = NoAnswer
    /\ st_gets' = 0
    /\ st_before' = log_dir
    /\ st_post' = NoPost
    /\ UNCHANGED <<storeFrame, log_dir, now>>

\* get_status(id) is called and sends its GET.
get_status_call ==
    /\ CanCall
    /\ \E i \in Ids \ {""} : st_status' = [DefaultStatus EXCEPT !.id = i]
    /\ st_fn' = "get_status"
    /\ st_pc' = "get"
    /\ st_calls' = st_calls + 1
    /\ st_path' = ""
    /\ st_stem' = None
    /\ st_resp' = NoAnswer
    /\ st_gets' = 1
    /\ st_before' = log_dir
    /\ st_post' = NoPost
    /\ st_ret' = NoRet
    /\ UNCHANGED <<storeFrame, log_dir, now>>

\* update_status(file_path, log_dir) is called: it reads the sidecar, returns
\* on StatusNotFound, and else sends the GET for the stored id.
update_status_call ==
    /\ CanCall
    /\ \E p \in Paths :
          /\ st_path' = p
          /\ LET r == read_status(log_dir, p)
             IN  IF r.tag = "Err"
                 THEN /\ st_pc' = "returned"
                      /\ st_ret' = r
                      /\ st_status' = DefaultStatus
                      /\ st_gets' = 0
                 ELSE /\ st_pc' = "get"
                      /\ st_ret' = NoRet
                      /\ st_status' = r.status
                      /\ st_gets' = 1
    /\ st_fn' = "update_status"
    /\ st_calls' = st_calls + 1
    /\ st_stem' = None
    /\ st_resp' = NoAnswer
    /\ st_before' = log_dir
    /\ st_post' = NoPost
    /\ UNCHANGED <<storeFrame, log_dir, now>>

\* The gateway answers the GET (or the request fails): get_status returns
\* its classification; update_status returns its error or goes on to write.
GetResponse(resp) ==
    /\ st_pc = "get"
    /\ st_resp' = resp
    /\ LET r == GetStatus(st_status.id, resp)
       IN  IF st_fn = "update_status" /\ UpdateProceeds(r)
           THEN /\ st_pc' = "write"
                /\ st_ret' = NoRet
           ELSE /\ st_pc' = "returned"
                /\ st_ret' = r
    /\ UNCHANGED <<storeFrame, log_dir, now, st_calls, st_fn, st_status, st_path,
                   st_stem, st_gets, st_before, st_post>>

\* update_status sets last_modified, status and raw_status, writes the
\* sidecar back and returns the status.
UpdateWrite ==
    /\ st_pc = "write"
    /\ LET trans_status == GetStatus(st_status.id, st_resp).status
           status == UpdatedStatus(st_status, trans_status, now)
           w == write_status(log_dir, status, None)
       IN  /\ st_status' = status
           /\ log_dir' = w.dir
           /\ st_ret' = IF w.ret.tag = "Err" THEN w.ret ELSE Ok(status)
    /\ now' = now + 1
    /\ st_pc' = "returned"
    /\ UNCHANGED <<storeFrame, st_calls, st_fn, st_path, st_stem, st_resp, st_gets,
                   st_before, st_post>>

\* upload_file_from_path(file_path, log_dir, ..) is called and returns; id
\* is the id of the transaction it signed.
upload_file_from_path_call ==
    /\ CanCall
    /\ \E p \in UploadPaths, i \in Ids \ {""}, a \in UploadAnswers :
          /\ st_path' = p
          /\ st_post' = a
          /\ st_status' = UploadStatus(i, Some(p))
          /\ log_dir' = Upload(log_dir, i, Some(p), a).dir
          /\ st_ret' = Upload(log_dir, i, Some(p), a).ret
    /\ st_fn' = "upload_file_from_path"
    /\ st_pc' = "returned"
    /\ st_calls' = st_calls + 1
    /\ st_stem' = None
    /\ st_resp' = NoAnswer
    /\ st_gets' = 0
    /\ st_before' = log_dir
    /\ UNCHANGED <<storeFrame, now>>

\* upload_raw_data(data, content_type, log_dir, ..) is called and returns.
upload_raw_data_call ==
    /\ CanCall
    /\ \E i \in Ids \ {""}, a \in UploadAnswers :
          /\ st_post' = a
          /\ st_status' = UploadStatus(i, None)
          /\ log_dir' = Upload(log_dir, i, None, a).dir
          /\ st_ret' = Upload(log_dir, i, None, a).ret
    /\ st_fn' = "upload_raw_data"
    /\ st_pc' = "returned"
    /\ st_calls' = st_calls + 1
    /\ st_path' = ""
    /\ st_stem' = None
    /\ st_resp' = NoAnswer
    /\ st_gets' = 0
    /\ st_before' = log_dir
    /\ UNCHANGED <<storeFrame, now>>

NextStore ==
    \/ write_status_call
    \/ read_status_call
    \/ get_status_call
    \/ update_status_call
    \/ \E resp \in GetAnswers : GetResponse(resp)
    \/ UpdateWrite

\* The sidecars of uploads: uploads, and update_status on what they wrote.
NextSidecar ==
    \/ upload_file_from_path_call
    \/ upload_raw_data_call
    \/ update_status_call
    \/ \E resp \in GetAnswers : GetResponse(resp)
    \/ UpdateWrite

(***************************************************************************)
(* create_data_items_from_file_paths, create_manifest,                     *)
(* create_manifest_from_bundle_statuses                                    *)
(***************************************************************************)
\* The bytes fs::read returns for a path.
FileData(path) == IF path = "a" THEN <<7, 9>> ELSE <<>>

\* mime_guess::from_path(file_path).first(): a type for a known extension.
MimeGuess(path) == IF path = "a" THEN Some("image/png") ELSE None

\* The Content-Type tag made from a guessed or explicit content type.
GivenContentTypeTag == Tag(67, 112)

\* create_data_item_from_file_path(file_path, tags), the file being
\* readable: the signed item and its status.
create_data_item_from_file_path(key, file_path, tags) ==
    LET guess == MimeGuess(file_path)
        all_tags == IF guess # None THEN tags \o <<GivenContentTypeTag>> ELSE tags
        data_item == sign_data_item(key, create_data_item(FileData(file_path), all_tags,
                                                          guess = None))
    IN  [item |-> data_item,
         status |-> [DefaultStatus EXCEPT
                        !.id = data_item.id,
                        !.file_path = Some(file_path),
                        !.content_type = IF guess # None THEN guess[1]
                                         ELSE "application/octet-stream"]]

\* A join that hands the outputs over in the order the futures finished.
join_in_completion_order(outputs, finished) ==
    [j \in 1..Len(finished) |-> outputs[finished[j]]]

\* try_join_all(futures), every future having finished with Ok: the outputs
\* in the order of the futures, whatever the order they finished in.
try_join_all(outputs, finished) ==
    [j \in 1..Len(finished) |-> outputs[j]]

\* The order of String keys: that of their bytes.
KeyRank(k) == IF k = "a" THEN 1 ELSE 2

\* An insert that keeps the value a key already has.
MapInsertKeepsFirst(m, k, v, keep_order) ==
    IF \E j \in 1..Len(m) : m[j].key = k THEN m
    ELSE IF keep_order THEN Append(m, [key |-> k, value |-> v])
    ELSE LET before == Cardinality({j \in 1..Len(m) : KeyRank(m[j].key) < KeyRank(k)})
         IN  SubSeq(m, 1, before) \o <<[key |-> k, value |-> v]>>
             \o SubSeq(m, before + 1, Len(m))

\* serde_json::Map::insert(k, v), the map given as its entries in iteration
\* order: the value of a key that is present is replaced where it is; a new
\* key goes to its place among the sorted keys, or to the end in a build of
\* serde_json that keeps insertion order.
MapInsert(m, k, v, keep_order) ==
    IF \E j \in 1..Len(m) : m[j].key = k
    THEN [j \in 1..Len(m) |-> IF m[j].key = k THEN [key |-> k, value |-> v] ELSE m[j]]
    ELSE IF keep_order THEN Append(m, [key |-> k, value |-> v])
    ELSE LET before == Cardinality({j \in 1..Len(m) : KeyRank(m[j].key) < KeyRank(k)})
         IN  SubSeq(m, 1, before) \o <<[key |-> k, value |-> v]>>
             \o SubSeq(m, before + 1, Len(m))

\* serde_json::Map::append(other): every entry of other is moved into m.
RECURSIVE MapAppend(_, _, _)
MapAppend(m, other, keep_order) ==
    IF other = <<>> THEN m
    ELSE MapAppend(MapInsert(m, Head(other).key, Head(other).value, keep_order),
                   Tail(other), keep_order)

\* The manifest document around a paths object.
Manifest(paths) == [manifest |-> "arweave/paths", version |-> "0.1.0", paths |-> paths]

\* create_manifest(statuses): the fold that inserts every status under its
\* file_path.
RECURSIVE ManifestPaths(_, _, _)
ManifestPaths(m, statuses, keep_order) ==
    IF statuses = <<>> THEN m
    ELSE ManifestPaths(MapInsert(m, Head(statuses).file_path[1],
                                 [id |-> Head(statuses).id,
                                  content_type |-> Head(statuses).content_type],
                                 keep_order),
                       Tail(statuses), keep_order)

create_manifest(statuses, keep_order) == Manifest(ManifestPaths(<<>>, statuses, keep_order))

\* create_manifest_from_bundle_statuses(statuses): the fold that appends the
\* file_paths object of every bundle status.
RECURSIVE BundleManifestPaths(_, _, _)
BundleManifestPaths(m, statuses, keep_order) ==
    IF statuses = <<>> THEN m
    ELSE BundleManifestPaths(MapAppend(m, Head(statuses).file_paths, keep_order),
                             Tail(statuses), keep_order)

create_manifest_from_bundle_statuses(statuses, keep_order) ==
    Manifest(BundleManifestPaths(<<>>, statuses, keep_order))

\* The BundleStatus of an earlier bundle upload of the batch `paths`, its
\* items having the ids <<upload, ..>>: file_paths is manifest["paths"].
BundleStatusOf(paths, upload, keep_order) ==
    [id |-> <<upload>>,
     number_of_files |-> Len(paths),
     file_paths |-> ManifestPaths(<<>>,
                                  [j \in 1..Len(paths) |->
                                      [DefaultStatus EXCEPT
                                          !.id = <<upload, KeyRank(paths[j])>>,
                                          !.file_path = Some(paths[j])]],
                                  keep_order)]

\* The bundle statuses a manifest is made of.
BundleStatuses(keep_order) ==
    {BundleStatusOf(ps, u, keep_order) : ps \in SeqsUpTo(Paths, 2), u \in 1..2}

IdleManifest ==
    /\ mf_fn = "none"
    /\ preserve_order = FALSE
    /\ mf_paths = <<>>
    /\ mf_statuses = <<>>
    /\ mf_pc = "idle"
    /\ mf_outputs = <<>>
    /\ mf_finished = <<>>
    /\ mf_items = <<>>
    /\ mf_binary = <<>>
    /\ mf_manifest = Manifest(<<>>)

\* One call: a bundle is made from a batch of paths, or a manifest from a
\* list of bundle statuses.  preserve_order is the build of serde_json: with
\* the feature of that name or, as by default, without.
InitManifest ==
    /\ preserve_order \in BOOLEAN
    /\ \/ /\ mf_fn = "create_bundle_transaction_from_file_paths"
          /\ mf_paths \in SeqsUpTo(Paths, MaxPaths)
          /\ mf_statuses = <<>>
       \/ /\ mf_fn = "create_manifest_from_bundle_statuses"
          /\ mf_paths = <<>>
          /\ mf_statuses \in SeqsUpTo(BundleStatuses(preserve_order), MaxStatuses)
    /\ mf_pc = "call"
    /\ mf_outputs = <<>>
    /\ mf_finished = <<>>
    /\ mf_items = <<>>
    /\ mf_binary = <<>>
    /\ mf_manifest = Manifest(<<>>)

\* create_data_items_from_file_paths(paths, tags): one future per path is
\* made and try_join_all awaits them.
create_data_items_from_file_paths_call ==
    /\ mf_fn = "create_bundle_transaction_from_file_paths"
    /\ mf_pc = "call"
    /\ mf_pc' = "items"
    /\ UNCHANGED <<manifestFrame, mf_fn, preserve_order, mf_paths, mf_statuses, mf_outputs,
                   mf_finished, mf_items, mf_binary, mf_manifest>>

\* The future of path k finishes with Ok((data_item, status)).
DataItemBuilt(k) ==
    /\ mf_pc = "items"
    /\ k \in 1..Len(mf_paths)
    /\ k \notin DOMAIN mf_outputs
    /\ mf_outputs' = With(mf_outputs, k,
                          create_data_item_from_file_path(ClientKey, mf_paths[k], <<>>))
    /\ mf_finished' = Append(mf_finished, k)
    /\ UNCHANGED <<manifestFrame, mf_fn, preserve_order, mf_paths, mf_statuses, mf_pc,
                   mf_items, mf_binary, mf_manifest>>

\* The future of path k finishes with Err (fs::read failed): try_join_all
\* returns it at once and `?` returns it to the caller.
DataItemFailed(k) ==
    /\ mf_pc = "items"
    /\ k \in 1..Len(mf_paths)
    /\ k \notin DOMAIN mf_outputs
    /\ mf_pc' = "failed"
    /\ UNCHANGED <<manifestFrame, mf_fn, preserve_order, mf_paths, mf_statuses, mf_outputs,
                   mf_finished, mf_items, mf_binary, mf_manifest>>

\* Every future has finished: try_join_all returns the Vec<(DataItem, Status)>.
DataItemsJoined ==
    /\ mf_pc = "items"
    /\ DOMAIN mf_outputs = 1..Len(mf_paths)
    /\ mf_items' = try_join_all(mf_outputs, mf_finished)
    /\ mf_pc' = "joined"
    /\ UNCHANGED <<manifestFrame, mf_fn, preserve_order, mf_paths, mf_statuses, mf_outputs,
                   mf_finished, mf_binary, mf_manifest>>

\* create_bundle_from_data_items(data_items): the binary and the manifest
\* made of the statuses.
create_bundle_call ==
    /\ mf_pc = "joined"
    /\ mf_binary' = create_bundle_from_data_items(
                        [j \in 1..Len(mf_items) |-> mf_items[j].item])
    /\ mf_manifest' = create_manifest([j \in 1..Len(mf_items) |-> mf_items[j].status],
                                      preserve_order)
    /\ mf_pc' = "returned"
    /\ UNCHANGED <<manifestFrame, mf_fn, preserve_order, mf_paths, mf_statuses, mf_outputs,
                   mf_finished, mf_items>>

\* create_manifest_from_bundle_statuses(statuses) is called and returns.
create_manifest_from_bundle_statuses_call ==
    /\ mf_fn = "create_manifest_from_bundle_statuses"
    /\ mf_pc = "call"
    /\ mf_manifest' = create_manifest_from_bundle_statuses(mf_statuses, preserve_order)
    /\ mf_pc' = "returned"
    /\ UNCHANGED <<manifestFrame, mf_fn, preserve_order, mf_paths, mf_statuses, mf_outputs,
                   mf_finished, mf_items, mf_binary>>

NextManifest ==
    \/ create_data_items_from_file_paths_call
    \/ \E k \in 1..Len(mf_paths) : DataItemBuilt(k)
    \/ \E k \in 1..Len(mf_paths) : DataItemFailed(k)
    \/ DataItemsJoined
    \/ create_bundle_call
    \/ create_manifest_from_bundle_statuses_call

(***************************************************************************)
(* create_transaction: tags and reward                                     *)
(***************************************************************************)
\* A u64 is kept at its width: four 16-bit limbs, the lowest first.
Limb == 65536

\* The u64 of a number below 2^31.
U64Of(n) == <<n % Limb, n \div Limb, 0, 0>>

\* a - b on u64: the wrapped difference and whether it overflowed.
U64Sub(a, b) ==
    LET d1 == a[1] - b[1]
        d2 == a[2] - b[2] - (IF d1 < 0 THEN 1 ELSE 0)
        d3 == a[3] - b[3] - (IF d2 < 0 THEN 1 ELSE 0)
        d4 == a[4] - b[4] - (IF d3 < 0 THEN 1 ELSE 0)
    IN  [value |-> <<(d1 + Limb) % Limb, (d2 + Limb) % Limb,
                     (d3 + Limb) % Limb, (d4 + Limb) % Limb>>,
         overflow |-> d4 < 0]

\* a + b on u64.
U64Add(a, b) ==
    LET s1 == a[1] + b[1]
        s2 == a[2] + b[2] + s1 \div Limb
        s3 == a[3] + b[3] + s2 \div Limb
        s4 == a[4] + b[4] + s3 \div Limb
    IN  [value |-> <<s1 % Limb, s2 % Limb, s3 % Limb, s4 % Limb>>,
         overflow |-> s4 >= Limb]

\* a * b on u64, for a below 2^15.
U64Mul(a, b) ==
    LET m1 == a * b[1]
        m2 == a * b[2] + m1 \div Limb
        m3 == a * b[3] + m2 \div Limb
        m4 == a * b[4] + m3 \div Limb
    IN  [value |-> <<m1 % Limb, m2 % Limb, m3 % Limb, m4 % Limb>>,
         overflow |-> m4 >= Limb]

BLOCK_SIZE == 262144

\* create_transaction, the reward:
\*   blocks_len = data_size / BLOCK_SIZE + (data_size % BLOCK_SIZE != 0) as u64
\*   reward = price_terms.0 + price_terms.1 * (blocks_len - 1)
\* An operation that overflows panics in a build with overflow checks and
\* wraps in one without.
Reward(data_len, price_terms, checks) ==
    LET blocks_len == data_len \div BLOCK_SIZE
                      + (IF data_len % BLOCK_SIZE # 0 THEN 1 ELSE 0)
        less_one == U64Sub(U64Of(blocks_len), U64Of(1))
        product == U64Mul(price_terms[2], less_one.value)
        sum == U64Add(U64Of(price_terms[1]), product.value)
        wrapped == less_one.overflow \/ product.overflow \/ sum.overflow
    IN  IF wrapped /\ checks
        THEN [tag |-> "panic", reward |-> U64Of(0), wrapped |-> FALSE]
        ELSE [tag |-> "Ok", reward |-> sum.value, wrapped |-> wrapped]

\* The size of a leaf of the Merkle tree, and the size below which a last
\* leaf is rebalanced with the one before it.
CHUNK_SIZE == 262144
HASH_SIZE == 32

\* The leaves [from, from + CHUNK_SIZE), .. : count of them.
FullLeaves(from, count) ==
    [j \in 1..count |->
        [min_byte_range |-> from + (j - 1) * CHUNK_SIZE,
         max_byte_range |-> from + j * CHUNK_SIZE]]

\* generate_leaves(data): consecutive leaves of CHUNK_SIZE bytes, the last
\* possibly shorter; a last leaf of fewer than HASH_SIZE bytes shares the
\* bytes of the last two leaves evenly with the leaf before it; a payload
\* that ends on a leaf boundary (the empty payload too) gets a closing
\* leaf of no bytes.
generate_leaves(len) ==
    LET full == len \div CHUNK_SIZE
        rest == len % CHUNK_SIZE
    IN  IF rest = 0
        THEN FullLeaves(0, full) \o <<[min_byte_range |-> len, max_byte_range |-> len]>>
        ELSE IF full >= 1 /\ rest < HASH_SIZE
        THEN LET from == (full - 1) * CHUNK_SIZE
                 mid == from + (CHUNK_SIZE + rest + 1) \div 2
             IN  FullLeaves(0, full - 1)
                 \o <<[min_byte_range |-> from, max_byte_range |-> mid],
                      [min_byte_range |-> mid, max_byte_range |-> len]>>
        ELSE FullLeaves(0, full)
             \o <<[min_byte_range |-> full * CHUNK_SIZE, max_byte_range |-> len]>>

\* resolve_proofs(root, None): one proof for every leaf, in leaf order, with
\* the offset of the leaf's last byte.
resolve_proofs(leaves) ==
    [j \in 1..Len(leaves) |-> [offset |-> leaves[j].max_byte_range - 1]]

\* Every sequence but its last element (Vec::pop).
Popped(seq) == SubSeq(seq, 1, Len(seq) - 1)

\* A merklize that keeps the closing leaf of no bytes.
merklize_keeps_last(data) ==
    [data_size |-> data.len,
     chunks |-> generate_leaves(data.len),
     proofs |-> resolve_proofs(generate_leaves(data.len))]

\* merklize(data): the leaves and their proofs, without the last leaf and
\* its proof when that leaf has no bytes; data_size is the payload length.
merklize(data) ==
    LET chunks == generate_leaves(data.len)
        proofs == resolve_proofs(chunks)
        last_chunk == chunks[Len(chunks)]
        discard == last_chunk.max_byte_range = last_chunk.min_byte_range
    IN  [data_size |-> data.len,
         chunks |-> IF discard THEN Popped(chunks) ELSE chunks,
         proofs |-> IF discard THEN Popped(proofs) ELSE proofs]

\* Transaction tags, by name and value.
TxTag(name, value) == [name |-> name, value |-> value]
UserAgent == TxTag("User-Agent", "arloader")

\* infer::get(&data): the type the magic numbers of the data give, if any.
Infer(data) == data.kind

\* create_transaction, the tags: User-Agent, the sniffed Content-Type when
\* auto_content_tag is set, then the other tags.
TransactionTags(data, other_tags, auto_content_tag) ==
    <<UserAgent>>
    \o (IF auto_content_tag
        THEN <<TxTag("Content-Type",
                     IF Infer(data) # None THEN Infer(data)[1]
                     ELSE "application/octet-stream")>>
        ELSE <<>>)
    \o (IF other_tags # None THEN other_tags[1] ELSE <<>>)

\* upload_file_from_path and upload_raw_data, before create_transaction:
\* with a content type at hand its tag is pushed to the additional tags and
\* auto_content_tag is false.
WithContentType(content_type, additional_tags) ==
    IF content_type # None
    THEN [tags |-> Some((IF additional_tags # None THEN additional_tags[1] ELSE <<>>)
                        \o <<TxTag("Content-Type", content_type[1])>>),
          auto_content_tag |-> FALSE]
    ELSE [tags |-> additional_tags, auto_content_tag |-> TRUE]

\* The payloads: up to two blocks and a byte, with or without magic numbers
\* that infer knows.
TxDataLens == {0, 1, 262144, 262145, 262176, 524288, 524289}
TxDatas ==
    {[len |-> n, kind |-> k] : n \in TxDataLens, k \in {None, Some("image/gif")}}
        \ {[len |-> 0, kind |-> Some("image/gif")]}

\* (base, incremental) as get_price_terms returns them.
PriceTerms == {<<5, 3>>, <<3, 5>>}

\* The tags a caller supplies.
CallerTags ==
    {None, Some(<<>>), Some(<<TxTag("App", "x")>>),
     Some(<<TxTag("Content-Type", "text/plain")>>)}

NoTxCall ==
    [data |-> [len |-> 0, kind |-> None], file_path |-> None, content_type |-> None,
     tags |-> None, last_tx |-> None, price_terms |-> <<0, 0>>,
     auto_content_tag |-> FALSE]

NoTx ==
    [data_size |-> 0, chunks |-> <<>>, proofs |-> <<>>, tags |-> <<>>,
     reward |-> U64Of(0), wrapped |-> FALSE]

\* The calls: create_transaction with its arguments, upload_file_from_path
\* of a file, upload_raw_data of data with or without a content type.
TxCalls ==
    {[fn |-> "create_transaction",
      args |-> [NoTxCall EXCEPT !.data = d, !.tags = t, !.last_tx = l,
                                !.price_terms = p, !.auto_content_tag = a]] :
         d \in TxDatas, t \in CallerTags, l \in {None, Some("anchor")},
         p \in PriceTerms, a \in BOOLEAN}
    \cup {[fn |-> "upload_file_from_path",
           args |-> [NoTxCall EXCEPT !.data = d, !.file_path = Some(f), !.tags = t,
                                     !.price_terms = p]] :
         d \in TxDatas, f \in Paths, t \in CallerTags, p \in PriceTerms}
    \cup {[fn |-> "upload_raw_data",
           args |-> [NoTxCall EXCEPT !.data = d, !.content_type = c, !.tags = t]] :
         d \in TxDatas, c \in {None, Some("text/html")}, t \in CallerTags}

IdleTx ==
    /\ ct_fn = "none"
    /\ overflow_checks = FALSE
    /\ ct_args = NoTxCall
    /\ ct_pc = "idle"
    /\ ct_call = NoTxCall
    /\ ct_tx = NoTx

\* One call; overflow_checks is the build: with them (debug) or without
\* (release).
InitTx ==
    /\ overflow_checks \in BOOLEAN
    /\ \E c \in TxCalls : ct_fn = c.fn /\ ct_args = c.args
    /\ ct_pc = "call"
    /\ ct_call = NoTxCall
    /\ ct_tx = NoTx

\* upload_raw_data fetches the price terms first.
get_price_terms_call ==
    /\ ct_fn = "upload_raw_data"
    /\ ct_pc = "call"
    /\ \/ \E p \in PriceTerms :
             /\ ct_args' = [ct_args EXCEPT !.price_terms = p]
             /\ ct_pc' = "priced"
       \/ ct_pc' = "failed" /\ UNCHANGED ct_args
    /\ UNCHANGED <<txFrame, ct_fn, overflow_checks, ct_call, ct_tx>>

\* upload_file_from_path and upload_raw_data settle the content type and
\* call create_transaction (upload_file_from_path through
\* create_transaction_from_file_path, which reads the file).
upload_creates_transaction ==
    /\ \/ ct_fn = "upload_file_from_path" /\ ct_pc = "call"
       \/ ct_fn = "upload_raw_data" /\ ct_pc = "priced"
    /\ LET content_type == IF ct_fn = "upload_file_from_path"
                           THEN MimeGuess(ct_args.file_path[1])
                           ELSE IF ct_args.content_type # None THEN ct_args.content_type
                                ELSE Infer(ct_args.data)
           with == WithContentType(content_type, ct_args.tags)
       IN  ct_call' = [ct_args EXCEPT !.tags = with.tags,
                                      !.auto_content_tag = with.auto_content_tag]
    /\ ct_pc' = "create"
    /\ UNCHANGED <<txFrame, ct_fn, overflow_checks, ct_args, ct_tx>>

\* create_transaction called directly.
create_transaction_call ==
    /\ ct_fn = "create_transaction"
    /\ ct_pc = "call"
    /\ ct_call' = ct_args
    /\ ct_pc' = "create"
    /\ UNCHANGED <<txFrame, ct_fn, overflow_checks, ct_args, ct_tx>>

\* create_transaction up to the anchor: merklize, owner, tags.
create_transaction_tags ==
    /\ ct_pc = "create"
    /\ ct_tx' = [ct_tx EXCEPT !.data_size = merklize(ct_call.data).data_size,
                              !.chunks = merklize(ct_call.data).chunks,
                              !.proofs = merklize(ct_call.data).proofs,
                              !.tags = TransactionTags(ct_call.data, ct_call.tags,
                                                       ct_call.auto_content_tag)]
    /\ ct_pc' = IF ct_call.last_tx # None THEN "reward" ELSE "anchor"
    /\ UNCHANGED <<txFrame, ct_fn, overflow_checks, ct_args, ct_call>>

\* The GET of tx_anchor is answered, or fails and `?` returns the error.
AnchorAnswer ==
    /\ ct_pc = "anchor"
    /\ \/ ct_pc' = "reward"
       \/ ct_pc' = "failed"
    /\ UNCHANGED <<txFrame, ct_fn, overflow_checks, ct_args, ct_call, ct_tx>>

\* create_transaction sets the reward and returns the transaction.
create_transaction_reward ==
    /\ ct_pc = "reward"
    /\ LET r == Reward(ct_tx.data_size, ct_call.price_terms, overflow_checks)
       IN  IF r.tag = "panic"
           THEN ct_pc' = "panicked" /\ UNCHANGED ct_tx
           ELSE /\ ct_pc' = "returned"
                /\ ct_tx' = [ct_tx EXCEPT !.reward = r.reward, !.wrapped = r.wrapped]
    /\ UNCHANGED <<txFrame, ct_fn, overflow_checks, ct_args, ct_call>>

NextTx ==
    \/ get_price_terms_call
    \/ upload_creates_transaction
    \/ create_transaction_call
    \/ create_transaction_tags
    \/ AnchorAnswer
    \/ create_transaction_reward

(***************************************************************************)
(* Specifications                                                          *)
(***************************************************************************)
vars == <<inputVars, chunkerVars, streamVars, postVars, uploadVars, storeVars,
          bundleVars, manifestVars, txVars>>

\* The two streams, over the batches chunk_file_paths built.
Init ==
    /\ InitInputs /\ InitStream /\ IdleChunker /\ IdlePost /\ IdleUpload /\ IdleStore
    /\ IdleBundle /\ IdleManifest /\ IdleTx
Next == NextStream
Spec == Init /\ [][Next]_vars

\* One call of post_chunk_with_retries, post_transaction or
\* post_transaction_chunks.
PostInit ==
    /\ IdleInputs /\ IdleChunker /\ IdleStream /\ InitPost /\ IdleUpload /\ IdleStore
    /\ IdleBundle /\ IdleManifest /\ IdleTx
SpecPost == PostInit /\ [][NextPost]_vars

\* One call of post_chunk_with_retries or post_transaction.  The runtime
\* drives the future of the call, and every request is answered or fails:
\* a step that can be taken is taken.
RetryInit ==
    /\ PostInit
    /\ post_fn \in {"post_chunk_with_retries", "post_transaction"}
SpecRetry == RetryInit /\ [][NextRetry]_vars /\ WF_vars(NextRetry)

\* One call of upload_file_from_path or upload_raw_data.
UploadInit ==
    /\ InitUploadInputs /\ IdleChunker /\ IdleStream /\ IdlePost /\ InitUpload /\ IdleStore
    /\ IdleBundle /\ IdleManifest /\ IdleTx
SpecUpload == UploadInit /\ [][NextUpload]_vars

\* The status store: calls of write_status, read_status, get_status and
\* update_status, one after the other.
StoreInit ==
    /\ IdleInputs /\ IdleChunker /\ IdleStream /\ IdlePost /\ IdleUpload /\ InitStore
    /\ IdleBundle /\ IdleManifest /\ IdleTx
SpecStore == StoreInit /\ [][NextStore]_vars
SpecSidecar == StoreInit /\ [][NextSidecar]_vars

\* Data items are signed or received, bundled and decoded again; a
\* transaction is signed.
BundleInit ==
    /\ IdleInputs /\ IdleChunker /\ IdleStream /\ IdlePost /\ IdleUpload /\ IdleStore
    /\ InitBundle /\ IdleManifest /\ IdleTx
SpecBundle == BundleInit /\ [][NextBundle]_vars

\* One call that makes a bundle and its manifest of a batch of paths, or a
\* manifest of bundle statuses.
ManifestInit ==
    /\ IdleInputs /\ IdleChunker /\ IdleStream /\ IdlePost /\ IdleUpload /\ IdleStore
    /\ IdleBundle /\ InitManifest /\ IdleTx
SpecManifest == ManifestInit /\ [][NextManifest]_vars

\* One call of create_transaction, directly or from upload_file_from_path or
\* upload_raw_data.
TxInit ==
    /\ IdleInputs /\ IdleChunker /\ IdleStream /\ IdlePost /\ IdleUpload /\ IdleStore
    /\ IdleBundle /\ IdleManifest /\ InitTx
SpecTx == TxInit /\ [][NextTx]_vars

\* chunk_file_paths.
ChunkerInit ==
    /\ InitInputs /\ InitChunker /\ IdleStream /\ IdlePost /\ IdleUpload /\ IdleStore
    /\ IdleBundle /\ IdleManifest /\ IdleTx
SpecChunker == ChunkerInit /\ [][NextChunker]_vars

(***************************************************************************)
(* Properties                                                              *)
(***************************************************************************)
\* The uploads of the stream that are posting through the chunk endpoint.
ChunkedInFlight == {k \in InFlight : in_progress[k].pc = "post_chunks"}

\* The configured in-flight bound of the stream that was called.
ConfiguredBound == IF op = "files" THEN buffer ELSE bundles_buffer

\* C1: in upload_files_stream and upload_bundles_stream the number of uploads
\* started and not yet completed never exceeds the configured bound (buffer,
\* resp. bundles_buffer), and an upload is started only while fewer than
\* that many are in flight.
C1_InFlightWithinBound ==
    /\ [](stream_pc \in {"running", "done"}
            => Cardinality(InFlight) <= ConfiguredBound)
    /\ [][next_item' > next_item
            => Cardinality(InFlight) < ConfiguredBound]_vars

\* A bundle stream whose buffer is full while a batch is still waiting, with
\* bundles_buffer below the buffer argument.
C1_Witness ==
    /\ op = "bundles"
    /\ stream_pc = "running"
    /\ bundles_buffer < buffer
    /\ Cardinality(InFlight) = bundles_buffer
    /\ next_item < NumItems

\* The number of results the stream yielded for item k.
YieldCount(k) == Cardinality({j \in 1..Len(yielded) : yielded[j].item = k})

\* C2: a fully consumed upload_files_stream has yielded exactly one Result
\* per input path, whichever of them were Err.
C2_OneResultPerPath ==
    (op = "files" /\ stream_pc = "done")
        => /\ Len(yielded) = Len(paths_iter)
           /\ \A k \in 1..Len(paths_iter) : YieldCount(k) = 1

\* A finished file stream in which an Err was yielded and a path pulled
\* after it was uploaded and yielded Ok.
C2_Witness ==
    /\ op = "files"
    /\ stream_pc = "done"
    /\ \E i, j \in 1..Len(yielded) :
          /\ i < j
          /\ ~yielded[i].ok
          /\ yielded[j].ok
          /\ yielded[i].item < yielded[j].item

\* C3 as claimed: a chunk is POSTed to chunk/ at most CHUNKS_RETRIES = 10
\* times in total.
C3_AtMostRetriesPosts ==
    \A c \in DOMAIN chunk_posts : Len(chunk_posts[c]) <= CHUNKS_RETRIES

\* C3, amended: post_chunk_with_retries POSTs a chunk at most
\* CHUNKS_RETRIES + 1 = 11 times in total (the first attempt and up to 10
\* retries), whatever the gateway answers, with one 1-second sleep before
\* every retry and the same chunk body on every attempt.
C3_AtMostRetriesPlusOnePosts ==
    \A c \in DOMAIN chunk_posts :
        /\ Len(chunk_posts[c]) <= CHUNKS_RETRIES + 1
        /\ \A j \in 1..Len(chunk_posts[c]) : chunk_posts[c][j] = c
        /\ Len(chunk_posts[c]) >= 1
             => chunk_sleeps[c] = (Len(chunk_posts[c]) - 1) * 1

\* post_chunk_with_retries has returned an error after its eleventh POST.
C3_Witness ==
    /\ post_fn = "post_chunk_with_retries"
    /\ post_pc = "returned"
    /\ post_ret = "StatusCodeNotOk"
    /\ Len(chunk_posts[1]) = CHUNKS_RETRIES + 1
    /\ chunk_sleeps[1] = CHUNKS_RETRIES

AllNotOk(answers) == \A j \in 1..Len(answers) : answers[j] = "NOT_OK"

\* C4: post_transaction POSTs a signed transaction at most 10 times; after k
\* non-OK answers (k < 10) and then OK it has made exactly k retries and k + 1
\* POSTs and returns Ok; it gives up with an error after 10 non-OK answers,
\* and not before; once it has returned it sends nothing further.
C4_TxPostAttempts ==
    /\ [](/\ tx_posts <= 10
          /\ (/\ tx_pc = "returned"
              /\ tx_answers # <<>>
              /\ tx_answers[Len(tx_answers)] = "OK"
              /\ AllNotOk(SubSeq(tx_answers, 1, Len(tx_answers) - 1)))
                => /\ Len(tx_answers) - 1 < 10
                   /\ tx_ret = "Ok"
                   /\ tx_retries = Len(tx_answers) - 1
                   /\ tx_posts = Len(tx_answers)
          /\ (tx_pc = "returned" /\ Len(tx_answers) = 10 /\ AllNotOk(tx_answers))
                => tx_ret = "StatusCodeNotOk"
          /\ (tx_pc = "returned" /\ tx_ret = "StatusCodeNotOk")
                => Len(tx_answers) = 10 /\ AllNotOk(tx_answers))
    /\ [][tx_pc = "returned" => tx_posts' = tx_posts]_vars

\* post_transaction returned Ok on its tenth POST, after nine retries.
C4_Witness ==
    /\ post_fn = "post_transaction"
    /\ post_pc = "returned"
    /\ post_ret = "Ok"
    /\ tx_posts = 10
    /\ tx_retries = 9

\* C5: post_transaction and post_transaction_chunks on a transaction with an
\* empty id return UnsignedTransaction without any POST to tx/ or chunk/.
C5_UnsignedNotPosted ==
    (post_fn \in {"post_transaction", "post_transaction_chunks"} /\ ~signed)
        => /\ tx_posts = 0
           /\ \A c \in DOMAIN chunk_posts : chunk_posts[c] = <<>>
           /\ post_pc = "returned" => post_ret = "UnsignedTransaction"

\* Both entry points have been seen to return on an unsigned transaction:
\* here post_transaction_chunks, for a transaction that has chunks.
C5_Witness ==
    /\ post_fn = "post_transaction_chunks"
    /\ ~signed
    /\ n_chunks > 0
    /\ post_pc = "returned"
    /\ post_ret = "UnsignedTransaction"

\* C6: during upload_bundles_stream at most one bundle transaction is being
\* uploaded through the chunk endpoint at any time.
C6_OneChunkedBundle ==
    op = "bundles" => Cardinality(ChunkedInFlight) <= 1

\* C7: upload_bundles_stream uses bundles_buffer = 1 and chunks_buffer =
\* buffer * 20 when the budget the batches were built with exceeds
\* MAX_TX_DATA, and bundles_buffer = buffer, chunks_buffer = 1 otherwise.
C7_BuffersFollowBudget ==
    (op = "bundles" /\ stream_pc \in {"running", "done"})
        => IF data_size > MAX_TX_DATA
           THEN bundles_buffer = 1 /\ chunks_buffer = buffer * CHUNKS_BUFFER_FACTOR
           ELSE bundles_buffer = buffer /\ chunks_buffer = 1

\* C8: upload_file_from_path and upload_raw_data post the signed transaction
\* through the chunk stream, with chunk concurrency 100, exactly when its
\* data is longer than MAX_TX_DATA, and otherwise whole through tx/; data of
\* exactly MAX_TX_DATA bytes is posted whole.
C8_ChunkedIffAboveMax ==
    up_tx.via # "none"
        => /\ up_tx.data_len = UploadDataLen
           /\ (up_tx.via = "post_chunks") <=> (UploadDataLen > MAX_TX_DATA)
           /\ (up_tx.via = "post_tx") <=> (UploadDataLen <= MAX_TX_DATA)
           /\ up_tx.via = "post_chunks" => up_tx.chunks_buffer = 100
           /\ up_pc \in {"post_tx", "post_chunks"} => up_pc = up_tx.via

\* A file of exactly MAX_TX_DATA bytes was accepted as a whole transaction.
C8_Witness ==
    /\ up_fn = "upload_file_from_path"
    /\ UploadDataLen = MAX_TX_DATA
    /\ up_tx.via = "post_tx"
    /\ up_ret = "Ok"

\* C9: no upload sends a transaction whose data is longer than MAX_TX_DATA
\* as a whole-body POST to tx/.
C9_NoLargeWholePost ==
    \A k \in InFlight :
        in_progress[k].pc = "post_tx" => in_progress[k].data_len <= MAX_TX_DATA

RECURSIVE SumPaths(_)
SumPaths(chunks) ==
    IF chunks = <<>> THEN 0 ELSE Len(Head(chunks).paths) + SumPaths(Tail(chunks))

RECURSIVE SumDataLen(_)
SumDataLen(chunks) ==
    IF chunks = <<>> THEN 0 ELSE Head(chunks).data_len + SumDataLen(Tail(chunks))

RECURSIVE SumFileLen(_)
SumFileLen(paths) ==
    IF paths = <<>> THEN 0 ELSE file_len[Head(paths)] + SumFileLen(Tail(paths))

\* C10: the batches chunk_file_paths returns hold as many paths as the input,
\* and their recorded sizes add up to the sum of the input file sizes.
C10_BatchesPreserveCountAndSize ==
    chunker_pc = "done"
        => /\ SumPaths(chunker_out) = Len(paths_iter)
           /\ SumDataLen(chunker_out) = SumFileLen(paths_iter)

\* A returned list of several batches, one of them opened by a file that
\* overflowed a non-empty batch.
C10_Witness ==
    /\ chunker_pc = "done"
    /\ Len(paths_iter) >= 3
    /\ \E j \in 2..Len(chunker_out) :
          Len(chunker_out[j - 1].paths) > 0 /\ Len(chunker_out[j].paths) > 0

\* The single file of batch c is by itself larger than the budget.
SingleOversized(c) == Len(c.paths) = 1 /\ file_len[c.paths[1]] > data_size

\* C11 as claimed: every batch chunk_file_paths returns is within the budget,
\* except possibly the first batch when it is a single file larger than the
\* budget.
C11_OnlyFirstOverBudget ==
    chunker_pc = "done"
        => \A j \in 1..Len(chunker_out) :
              \/ SumFileLen(chunker_out[j].paths) <= data_size
              \/ j = 1 /\ SingleOversized(chunker_out[j])

\* C11, amended: every batch chunk_file_paths returns records the total size
\* of its files, and that total is within the budget unless the batch, at
\* whatever position, is a single file that is by itself larger than the
\* budget.
C11_OverBudgetOnlySingleFile ==
    chunker_pc = "done"
        => \A j \in 1..Len(chunker_out) :
              /\ chunker_out[j].data_len = SumFileLen(chunker_out[j].paths)
              /\ \/ chunker_out[j].data_len <= data_size
                 \/ SingleOversized(chunker_out[j])

\* A returned list whose first batch holds two files within the budget and
\* whose second batch is a single file larger than the budget.
C11_Witness ==
    /\ chunker_pc = "done"
    /\ Len(chunker_out) >= 2
    /\ Len(chunker_out[1].paths) = 2
    /\ chunker_out[1].data_len <= data_size
    /\ SingleOversized(chunker_out[2])
    /\ chunker_out[2].data_len > data_size

SidecarsOf(p) ==
    {k \in DOMAIN log_dir : StatusFromJson(log_dir[k]).file_path = Some(p)}

WroteFor(p) ==
    /\ \/ st_fn' = "write_status" /\ st_calls' = st_calls + 1 /\ st_stem' = None
       \/ st_pc = "write" /\ st_pc' = "returned"
    /\ st_status'.file_path = Some(p)
    /\ st_status'.id # ""

C14_NoSamePathInFlight ==
    op = "files"
        => \A j, k \in InFlight : j # k => paths_iter[j] # paths_iter[k]

\* get_status has returned.
GetStatusReturned == st_fn = "get_status" /\ st_pc = "returned"

\* What C15 says of the answers it names: one GET, a JSON confirmation is
\* Confirmed with raw_status, the body "Pending" is Pending without
\* raw_status, 404 is NotFound, and Submitted is never returned.
ClassifiedAsData ==
    /\ st_gets = 1
    /\ (st_resp.code = 200 /\ st_resp.body = "json")
          => /\ st_ret.tag = "Ok"
             /\ st_ret.status.status = "Confirmed"
             /\ st_ret.status.raw_status = Some(RawStatus(st_resp.confirmations))
    /\ (st_resp.code = 200 /\ st_resp.body = "Pending")
          => /\ st_ret.tag = "Ok"
             /\ st_ret.status.status = "Pending"
             /\ st_ret.status.raw_status = None
    /\ st_resp.code = 404
          => st_ret.tag = "Ok" /\ st_ret.status.status = "NotFound"
    /\ st_ret.tag = "Ok"
          => /\ st_ret.status.status # "Submitted"
             /\ st_ret.status.id = st_status.id

\* C15 as claimed: get_status makes a single GET and classifies the answer
\* as a data value; only HTTP codes other than those named produce an
\* error, and that error carries the observed code.
C15_OnlyOtherCodesAreErrors ==
    GetStatusReturned
        => /\ ClassifiedAsData
           /\ st_ret.tag = "Err"
                 => /\ st_resp.kind = "http"
                    /\ st_resp.code \notin {200, 404}
                    /\ st_ret.err = "ArweaveNetworkError"
                    /\ st_ret.code = st_resp.code

\* C15, amended: get_status makes a single GET; a 200 answer is Confirmed
\* with raw_status when its body is a JSON confirmation, Pending without
\* raw_status when its body is "Pending", and a JSON error without a code
\* when its body is anything else; 202 is Pending without raw_status; 404 is
\* NotFound; every other HTTP code is an ArweaveNetworkError carrying the
\* observed code; a request that gets no answer is a transport error.
\* Submitted is never returned.
C15_GetStatusClassification ==
    GetStatusReturned
        => /\ ClassifiedAsData
           /\ st_resp.code = 202
                 => /\ st_ret.tag = "Ok"
                    /\ st_ret.status.status = "Pending"
                    /\ st_ret.status.raw_status = None
           /\ st_ret.tag = "Err"
                 => \/ /\ st_resp.kind = "http"
                       /\ st_resp.code \notin {200, 202, 404}
                       /\ st_ret.err = "ArweaveNetworkError"
                       /\ st_ret.code = st_resp.code
                    \/ /\ st_resp.kind = "http"
                       /\ st_resp.code = 200
                       /\ st_resp.body \notin {"Pending", "json"}
                       /\ st_ret.err = "serde_json"
                    \/ /\ st_resp.kind = "transport"
                       /\ st_ret.err = "reqwest"
           /\ st_ret.tag = "Ok"
                 => (st_ret.status.raw_status # None
                       <=> st_ret.status.status = "Confirmed")

\* get_status returned Pending for a 202 answer, in a log_dir that holds a
\* sidecar it left alone.
C15_Witness ==
    /\ GetStatusReturned
    /\ st_resp.code = 202
    /\ st_ret.tag = "Ok"
    /\ st_ret.status.status = "Pending"
    /\ log_dir # <<>>
    /\ log_dir = st_before

\* update_status has returned Ok.
UpdateSucceeded ==
    st_fn = "update_status" /\ st_pc = "returned" /\ st_ret.tag = "Ok"

\* The Status stored for file_path p in the directory dir.
Stored(dir, p) == StatusFromJson(dir[Blake3(p)])

\* C16: a successful update_status rewrites the sidecar of its file with
\* status and raw_status taken from the status GET it made and with the
\* time of the update as last_modified, leaves id, file_path, content_type
\* and reward of the stored Status unchanged, and touches no other sidecar;
\* a Pending record and a GET returning a confirmation give Confirmed with
\* the returned number_of_confirmations.
C16_UpdateRewritesStatusOnly ==
    UpdateSucceeded
        => /\ Blake3(st_path) \in DOMAIN st_before
           /\ DOMAIN log_dir = DOMAIN st_before
           /\ \A k \in DOMAIN log_dir \ {Blake3(st_path)} : log_dir[k] = st_before[k]
           /\ LET old == Stored(st_before, st_path)
                  new == Stored(log_dir, st_path)
                  got == GetStatus(old.id, st_resp)
              IN  /\ st_gets = 1
                  /\ got.tag = "Ok"
                  /\ new.status = got.status.status
                  /\ new.raw_status = got.status.raw_status
                  /\ new.last_modified = now - 1
                  /\ new.last_modified > old.last_modified
                  /\ new.id = old.id
                  /\ new.file_path = old.file_path
                  /\ new.content_type = old.content_type
                  /\ new.reward = old.reward
                  /\ st_ret.status = new
                  /\ (old.status = "Pending" /\ st_resp.code = 200 /\ st_resp.body = "json")
                        => /\ new.status = "Confirmed"
                           /\ new.raw_status # None
                           /\ new.raw_status[1].number_of_confirmations
                                 = st_resp.confirmations

\* A record that an earlier update had made Pending was updated to
\* Confirmed with 25 confirmations, its image/png content type and its
\* reward kept.
C16_Witness ==
    /\ UpdateSucceeded
    /\ Blake3(st_path) \in DOMAIN st_before
    /\ Stored(st_before, st_path).status = "Pending"
    /\ Stored(log_dir, st_path).status = "Confirmed"
    /\ Stored(log_dir, st_path).raw_status = Some(RawStatus(25))
    /\ Stored(log_dir, st_path).content_type = "image/png"
    /\ Stored(log_dir, st_path).reward = 7

\* The item's id is the hash of its signature and its signature is that of
\* its deep hash under the key whose modulus is its owner.
ValidlySigned(item) ==
    /\ item.id = Sha256(item.signature)
    /\ \E k \in Keys :
          /\ item.owner = Modulus(k)
          /\ Verify(k, item.signature, DeepHashOfDataItem(item))

\* C17: for every list of N signed data items,
\* deserialize_bundle(create_bundle_from_data_items(items)) returns exactly
\* N data items, in the same order, each equal to the original in id, data
\* and tags, and each with a verifying signature.
C17_BundleRoundTrip ==
    (bd_pc = "decoded" /\ \A j \in 1..Len(data_items) : ValidlySigned(data_items[j]))
        => /\ decoded.tag = "Ok"
           /\ Len(decoded.items) = Len(data_items)
           /\ \A j \in 1..Len(data_items) :
                 /\ decoded.items[j].id = data_items[j].id
                 /\ decoded.items[j].data = data_items[j].data
                 /\ decoded.items[j].tags = data_items[j].tags
                 /\ ValidlySigned(decoded.items[j])

\* The summed lengths of the serialized bodies of the first j items.
RECURSIVE BodiesLen(_, _)
BodiesLen(items, j) ==
    IF j = 0 THEN 0
    ELSE BodiesLen(items, j - 1) + Len(SerializeDataItem(items[j]))

\* C18: the output of create_bundle_from_data_items over N items is the
\* 8-byte little-endian count N, 24 zero bytes, the N index entries in item
\* order (8-byte little-endian body length, 24 zero bytes, 32-byte id), then
\* the N item bodies in the same order, the i-th entry describing the i-th
\* body; for N = 0 it is exactly the 32-byte header.
C18_BundleLayout ==
    bd_pc \in {"encoded", "decoded"}
        => LET n == Len(data_items)
           IN  /\ Len(bundle) = 32 + 64 * n + BodiesLen(data_items, n)
               /\ SubSeq(bundle, 1, 8) = ToLeBytes(n, 8)
               /\ SubSeq(bundle, 9, 32) = Bytes(0, 24)
               /\ n = 0 => bundle = Bytes(0, 32)
               /\ \A j \in 1..n :
                     LET entry == 32 + 64 * (j - 1)
                         body == 32 + 64 * n + BodiesLen(data_items, j - 1)
                         binary == SerializeDataItem(data_items[j])
                     IN  /\ FromLeBytes(SubSeq(bundle, entry + 1, entry + 8))
                               = Len(binary)
                         /\ SubSeq(bundle, entry + 9, entry + 32) = Bytes(0, 24)
                         /\ SubSeq(bundle, entry + 33, entry + 64) = data_items[j].id
                         /\ SubSeq(bundle, body + 1, body + Len(binary)) = binary

\* A bundle of two items whose bodies differ in length, the longer first.
C18_Witness ==
    /\ bd_pc = "encoded"
    /\ Len(data_items) = 2
    /\ Len(SerializeDataItem(data_items[1])) > Len(SerializeDataItem(data_items[2]))
    /\ data_items[1].id # data_items[2].id

\* The signature of the item verifies under the key of the item's owner.
VerifiesUnderOwnOwner(item) ==
    \E k \in Keys :
        /\ item.owner = Modulus(k)
        /\ Verify(k, item.signature, DeepHashOfDataItem(item))

\* C19: deserialize_bundle verifies each item's signature against that
\* item's own owner: a bundle decodes successfully exactly when every item's
\* signature verifies under its own owner, whichever key that is.
C19_VerifiedAgainstOwnOwner ==
    bd_pc = "decoded"
        => (decoded.tag = "Ok"
              <=> \A j \in 1..Len(data_items) : VerifiesUnderOwnOwner(data_items[j]))

\* C20: every Transaction returned by sign_transaction and every DataItem
\* returned by sign_data_item has id = SHA-256(signature), and its signature
\* is the client's signature of the deep hash of its fields as they are at
\* return; sign_data_item has set the owner to the client's modulus.
C20_IdIsHashOfSignature ==
    /\ \A j \in 1..Len(data_items) :
          item_src[j] = "signed"
            => /\ data_items[j].id = Sha256(data_items[j].signature)
               /\ data_items[j].owner = Modulus(ClientKey)
               /\ data_items[j].signature
                     = Sign(ClientKey, DeepHashOfDataItem(data_items[j]))
    /\ tn_pc = "signed"
          => /\ transaction.id = Sha256(transaction.signature)
             /\ transaction.signature
                   = Sign(ClientKey, DeepHashOfTransaction(transaction))

\* A signed transaction with data, and a signed data item with data and
\* the tags create_data_item gave it.
C20_Witness ==
    /\ tn_pc = "signed"
    /\ transaction.data # <<>>
    /\ Len(transaction.id) = 32
    /\ \E j \in 1..Len(data_items) :
          /\ item_src[j] = "signed"
          /\ data_items[j].data # <<>>
          /\ Len(data_items[j].tags) = 2
          /\ Len(data_items[j].signature) = 512

\* The data item create_data_item_from_file_path builds for the j-th path of
\* the batch.
ItemOfPath(j) == create_data_item_from_file_path(ClientKey, mf_paths[j], <<>>).item

\* The j-th entry of the index and the j-th body of the bundle binary are
\* those of the item built for the j-th path of the batch.
BundleInPathOrder ==
    LET n == Len(mf_paths)
        lens == IndexLens(mf_binary, n)
    IN  /\ FromLeBytes(SubSeq(mf_binary, 1, CountLen)) = n
        /\ \A j \in 1..n :
              /\ IndexIds(mf_binary, n)[j] = ItemOfPath(j).id
              /\ lens[j] = Len(SerializeDataItem(ItemOfPath(j)))
              /\ SubSeq(mf_binary, BodyStart(lens, n, j) + 1,
                        BodyStart(lens, n, j) + lens[j])
                    = SerializeDataItem(ItemOfPath(j))

\* The keys of the manifest's paths object, in iteration order.
ManifestKeys == [j \in 1..Len(mf_manifest.paths) |-> mf_manifest.paths[j].key]

BundleReturned ==
    mf_fn = "create_bundle_transaction_from_file_paths" /\ mf_pc = "returned"

\* C21 as claimed: within a single bundle built from a batch of paths, the
\* data items appear in the bundle index and bundle body in the order of the
\* input paths, and the manifest map lists the paths in that same input
\* order.
C21_BundleAndManifestInInputOrder ==
    BundleReturned => BundleInPathOrder /\ ManifestKeys = mf_paths

\* C21: within a single bundle built from a batch of paths, the data items
\* appear in the bundle index and bundle body in the order of the input
\* paths, in whatever order they were built; the manifest map has exactly
\* one entry for every distinct path of the batch, holding the id and the
\* content type of an item built for that path.
C21_BundleInInputOrderManifestByPath ==
    BundleReturned
        => /\ BundleInPathOrder
           /\ {ManifestKeys[j] : j \in 1..Len(ManifestKeys)}
                 = {mf_paths[j] : j \in 1..Len(mf_paths)}
           /\ \A i, j \in 1..Len(ManifestKeys) : ManifestKeys[i] = ManifestKeys[j] => i = j
           /\ \A j \in 1..Len(mf_paths) :
                 \E e \in 1..Len(mf_manifest.paths) :
                    /\ mf_manifest.paths[e].key = mf_paths[j]
                    /\ mf_manifest.paths[e].value.id = ItemOfPath(j).id
                    /\ mf_manifest.paths[e].value.content_type
                          = mf_items[j].status.content_type

\* A bundle of the batch (b, a) whose second item was built first.
C21_Witness ==
    /\ BundleReturned
    /\ mf_paths = <<"b", "a">>
    /\ mf_finished = <<2, 1>>
    /\ ItemOfPath(1).id # ItemOfPath(2).id
    /\ Len(mf_manifest.paths) = 2

\* The keys of a paths object.
KeysOf(object) == {object[j].key : j \in 1..Len(object)}

\* The value a paths object holds for key k.
ValueOf(object, k) == object[CHOOSE j \in 1..Len(object) : object[j].key = k].value

ManifestOfStatusesReturned ==
    mf_fn = "create_manifest_from_bundle_statuses" /\ mf_pc = "returned"

\* C22: create_manifest_from_bundle_statuses returns a manifest whose paths
\* map is the union of the file_paths maps of all given bundle statuses;
\* when the same file path occurs in several bundle statuses, the entry of
\* the later bundle status in the input list wins.
C22_UnionLaterWins ==
    ManifestOfStatusesReturned
        => /\ mf_manifest.manifest = "arweave/paths"
           /\ mf_manifest.version = "0.1.0"
           /\ KeysOf(mf_manifest.paths)
                 = UNION {KeysOf(mf_statuses[s].file_paths) : s \in 1..Len(mf_statuses)}
           /\ \A i, j \in 1..Len(ManifestKeys) : ManifestKeys[i] = ManifestKeys[j] => i = j
           /\ \A k \in KeysOf(mf_manifest.paths) :
                 LET holders == {s \in 1..Len(mf_statuses) :
                                    k \in KeysOf(mf_statuses[s].file_paths)}
                     last == CHOOSE s \in holders : \A t \in holders : t <= s
                 IN  ValueOf(mf_manifest.paths, k)
                        = ValueOf(mf_statuses[last].file_paths, k)

\* Three bundle statuses: the first and the last hold path a with different
\* ids, the second holds path b only.
C22_Witness ==
    /\ ManifestOfStatusesReturned
    /\ Len(mf_statuses) = 3
    /\ KeysOf(mf_statuses[1].file_paths) = {"a"}
    /\ KeysOf(mf_statuses[2].file_paths) = {"b"}
    /\ "a" \in KeysOf(mf_statuses[3].file_paths)
    /\ ValueOf(mf_statuses[1].file_paths, "a") # ValueOf(mf_statuses[3].file_paths, "a")
    /\ KeysOf(mf_manifest.paths) = {"a", "b"}

\* create_transaction has come to the computation of the reward.
RewardComputed == ct_pc \in {"returned", "panicked"}

\* ceil(data_size / BLOCK_SIZE), in the integers.
BlocksOf(data_len) == (data_len + BLOCK_SIZE - 1) \div BLOCK_SIZE

\* C23: for every payload length, including 0, create_transaction sets
\* reward = base + incremental * (ceil(data_size / 262144) - 1), evaluated in
\* unsigned 64-bit arithmetic without wrap-around or abort; a payload of at
\* most one block gets reward = base.
C23_RewardFormula ==
    RewardComputed
        => /\ ct_pc = "returned"
           /\ ~ct_tx.wrapped
           /\ ct_tx.reward
                 = U64Of(IF ct_tx.data_size <= 262144 THEN ct_call.price_terms[1]
                         ELSE ct_call.price_terms[1]
                              + ct_call.price_terms[2] * (BlocksOf(ct_tx.data_size) - 1))

\* The number of Content-Type tags of the transaction.
ContentTypeTags ==
    Cardinality({j \in 1..Len(ct_tx.tags) : ct_tx.tags[j].name = "Content-Type"})

\* C24: every transaction built by upload_file_from_path, upload_raw_data
\* or create_transaction carries exactly one Content-Type tag, whatever
\* additional tags the caller supplies and whether the content type is
\* explicit, guessed from the file extension, or sniffed from the bytes
\* (falling back to application/octet-stream).
C24_ExactlyOneContentType ==
    ct_pc = "returned" => ContentTypeTags = 1

\* C25: when the consumer drops an upload stream, no upload that had not
\* yet started is started afterwards, and every upload that was in flight at
\* that moment still runs to its natural completion or failure (no request
\* sequence is aborted part-way).
C25_DropLetsInFlightFinish ==
    /\ [](cancelled = <<>>)
    /\ [][stream_pc = "dropped" => next_item' = next_item /\ in_progress' = in_progress]_vars

\* The items of the yielded results, in the order the stream produced them.
YieldedItems == [j \in 1..Len(yielded) |-> yielded[j].item]

\* C26: upload_files_stream and upload_bundles_stream emit results in the
\* order in which the uploads complete, not in input order: for every
\* interleaving, the i-th yielded result belongs to the i-th upload to
\* finish.
C26_YieldedInCompletionOrder ==
    /\ YieldedItems = finish_order
    /\ \A i, j \in 1..Len(yielded) : yielded[i].item = yielded[j].item => i = j

\* A stream of files whose second upload finished, and was yielded, before
\* its first.
C26_Witness ==
    /\ op = "files"
    /\ stream_pc = "done"
    /\ Len(yielded) >= 2
    /\ finish_order[1] = 2
    /\ yielded[1].item = 2
    /\ yielded[2].item = 1

\* C27: chunk_file_paths returns batches that, concatenated in order, equal
\* the input path sequence, and it is greedy: a file f starts a new batch
\* (as its first member) exactly when adding f's size to the running total
\* of the current batch would exceed the budget B; otherwise f is appended
\* to the current batch.  The current batch of the first file is the empty
\* one the fold starts with.
C27_GreedyBatchesInOrder ==
    chunker_pc = "done"
        => /\ Flatten([b \in 1..Len(chunker_out) |-> chunker_out[b].paths]) = paths_iter
           /\ \A b \in 2..Len(chunker_out) : chunker_out[b].paths # <<>>
           /\ \A b \in 1..Len(chunker_out) :
                 \A o \in 1..Len(chunker_out[b].paths) :
                    LET f == file_len[chunker_out[b].paths[o]]
                        running == SumFileLen(SubSeq(chunker_out[b].paths, 1, o - 1))
                    IN  /\ o > 1 => running + f <= data_size
                        /\ o = 1 /\ b = 1 => f <= data_size
                        /\ o = 1 /\ b > 1
                              => SumFileLen(chunker_out[b - 1].paths) + f > data_size

\* A batch of two files that fill the budget exactly, followed by a batch
\* the third file opened.
C27_Witness ==
    /\ chunker_pc = "done"
    /\ Len(chunker_out) = 2
    /\ Len(chunker_out[1].paths) = 2
    /\ SumFileLen(chunker_out[1].paths) = data_size
    /\ Len(chunker_out[2].paths) = 1

\* C28: a transport-level failure of one Transaction POST attempt is
\* consumed inside post_transaction as a failed attempt and retried after
\* the sleep, the same way a chunk POST transport failure is retried;
\* post_transaction returns an error only after its 10 attempts are used up.
C28_TxTransportFailureRetried ==
    /\ [](/\ (tx_pc = "returned" /\ signed /\ tx_ret # "Ok")
                => tx_posts = CHUNKS_RETRIES /\ tx_sleeps >= CHUNKS_RETRIES - 1
          /\ \A j \in 1..Len(tx_answers) :
                (tx_answers[j] = "transport" /\ j < CHUNKS_RETRIES /\ tx_pc = "returned")
                    => tx_posts > j)
    /\ [][(tx_pc = "send" /\ tx_pc' # "send"
            /\ tx_answers'[Len(tx_answers')] = "transport" /\ tx_posts < CHUNKS_RETRIES)
              => tx_pc' = "sleep"]_vars

\* C29: post_transaction_chunks fails fast: once one chunk has failed
\* permanently (all its retries used up), no further chunk of that
\* transaction is POSTed, and the error returned is the first error that
\* occurred.
C29_ChunksFailFast ==
    /\ [](post_fn = "post_transaction_chunks" /\ post_pc = "returned"
             /\ chunk_results # <<>>
                => post_ret = FirstErr(chunk_results))
    /\ [][(post_fn = "post_transaction_chunks"
            /\ \E j \in 1..Len(chunk_results) : chunk_results[j].resp # "Ok")
              => chunk_posts' = chunk_posts]_vars

\* C30: deserialize_bundle reports every malformed bundle as a decode error
\* value instead of crashing or returning items: a bundle cut short in its
\* header or in a body, an item whose signature does not verify, and an
\* item whose id in the index differs from the SHA-256 of its signature
\* each yield Err.
C30_MalformedBundleIsErr ==
    bd_pc = "decoded_malformed" => decoded.tag = "Err"

\* C31: the items of the input iterator (paths for upload_files_stream,
\* batches for upload_bundles_stream) are pulled on demand: the number taken
\* from the iterator is at most the number of completed uploads plus the
\* in-flight bound, and nothing is pulled or started before the stream is
\* first polled.
C31_PulledOnDemand ==
    /\ stream_pc \in {"running", "done", "dropped"}
          => next_item <= Len(yielded) + ConfiguredBound
    /\ ~polled => (next_item = 0 /\ in_progress = <<>> /\ yielded = <<>>)

\* A polled file stream with a full buffer, one upload completed and a path
\* still waiting in the iterator.
C31_Witness ==
    /\ op = "files"
    /\ polled
    /\ stream_pc = "running"
    /\ Len(yielded) >= 1
    /\ Cardinality(InFlight) = buffer
    /\ next_item = Len(yielded) + buffer
    /\ next_item < NumItems

\* create_transaction has called merklize.
Merklized == ct_pc \in {"anchor", "reward", "returned", "panicked"}

\* C32: for every payload, the Transaction returned by merklize has
\* len(chunks) = len(proofs) and data_size equal to the payload length; for
\* a payload of exactly k * 262144 bytes (k >= 0) both lists have length k,
\* the closing leaf of no bytes and its proof being discarded; every
\* remaining chunk has max_byte_range > min_byte_range.
C32_MerklizeChunksAndProofs ==
    Merklized
        => LET n == ct_call.data.len
           IN  /\ Len(ct_tx.chunks) = Len(ct_tx.proofs)
               /\ ct_tx.data_size = n
               /\ n % 262144 = 0 => Len(ct_tx.chunks) = n \div 262144
               /\ \A j \in 1..Len(ct_tx.chunks) :
                     ct_tx.chunks[j].max_byte_range > ct_tx.chunks[j].min_byte_range

\* A payload of exactly two leaves.
C32_Witness ==
    /\ Merklized
    /\ ct_call.data.len = 2 * 262144
    /\ Len(ct_tx.chunks) = 2
    /\ Len(ct_tx.proofs) = 2

\* C33: every status sidecar persisted by the upload operations
\* (upload_file_from_path, upload_raw_data, update_status) has a file stem
\* equal to the BLAKE3 hex digest of the absolute path of the uploaded file,
\* so two spellings of the same file map to the same sidecar.
C33_StemIsHashOfAbsolutePath ==
    \A k \in DOMAIN log_dir : \E p \in UploadPaths : k = Blake3(AbsolutePath(p))

\* C34: upload_file_from_path writes a status sidecar only after the gateway
\* has accepted the upload (the tx POST returned 200 and, in chunked mode,
\* every chunk was accepted); when the upload fails no sidecar is created
\* and an existing sidecar of the file is left unchanged; the id stored is
\* the id of the posted transaction.
C34_SidecarOnlyAfterAccepted ==
    (st_fn = "upload_file_from_path" /\ st_pc = "returned")
        => /\ log_dir # st_before
                => /\ st_post.header = "accepted"
                   /\ st_post.route = "chunks" => st_post.chunks = "accepted"
                   /\ Blake3(st_path) \in DOMAIN log_dir
                   /\ StatusFromJson(log_dir[Blake3(st_path)]).id = st_status.id
                   /\ \A k \in DOMAIN st_before \ {Blake3(st_path)} :
                         k \in DOMAIN log_dir /\ log_dir[k] = st_before[k]
           /\ st_ret.tag = "Err" => log_dir = st_before
           /\ (st_ret.tag = "Ok" /\ st_post.log)
                => /\ Blake3(st_path) \in DOMAIN log_dir
                   /\ StatusFromJson(log_dir[Blake3(st_path)]).id = st_status.id

\* A chunked upload of a file that already has a sidecar: the new
\* transaction is accepted and the sidecar now names it.
C34_Witness ==
    /\ st_fn = "upload_file_from_path"
    /\ st_pc = "returned"
    /\ st_post.route = "chunks"
    /\ st_post.chunks = "accepted"
    /\ Blake3(st_path) \in DOMAIN st_before
    /\ StatusFromJson(st_before[Blake3(st_path)]).id # st_status.id
    /\ StatusFromJson(log_dir[Blake3(st_path)]).id = st_status.id

\* Some chunk of the transaction has been POSTed.
SomeChunkPosted == \E c \in DOMAIN chunk_posts : chunk_posts[c] # <<>>

\* C35: in post_transaction_chunks no chunk is POSTed before the data-less
\* transaction header has been accepted by the tx endpoint; if the header
\* POST fails after its retries, no chunk POST is ever made for that
\* transaction.
C35_NoChunkBeforeHeader ==
    /\ [](post_fn = "post_transaction_chunks"
            => /\ SomeChunkPosted
                    => /\ tx_pc = "returned"
                       /\ tx_answers # <<>>
                       /\ tx_answers[Len(tx_answers)] = "OK"
               /\ (tx_pc = "returned" /\ tx_answers # <<>>
                      /\ tx_answers[Len(tx_answers)] # "OK")
                    => ~SomeChunkPosted
               /\ post_pc = "returned" /\ tx_ret # "Ok" => ~SomeChunkPosted)
    /\ [][(post_fn = "post_transaction_chunks" /\ chunk_posts' # chunk_posts)
            => tx_ret = "Ok"]_vars

\* The chunks are being POSTed after a header that was accepted on a retry.
C35_Witness ==
    /\ post_fn = "post_transaction_chunks"
    /\ Len(tx_answers) > 1
    /\ tx_answers[1] = "NOT_OK"
    /\ tx_ret = "Ok"
    /\ SomeChunkPosted

\* Chunk c was POSTed and the stream yielded Ok for it.
ChunkAccepted(c) ==
    /\ chunk_posts[c] # <<>>
    /\ \E j \in 1..Len(chunk_results) :
          chunk_results[j].chunk = c /\ chunk_results[j].resp = "Ok"

\* C36: post_transaction_chunks returns Ok((id, reward)) only if every chunk
\* index 0..len(chunks)-1 of the transaction was POSTed and accepted (200),
\* with at most chunks_buffer chunk uploads in flight at any time; if any
\* chunk ends in failure the call returns an error.
C36_OkOnlyIfAllChunksAccepted ==
    post_fn = "post_transaction_chunks"
        => /\ Cardinality(DOMAIN chunk_tasks) <= post_buffer
           /\ (post_pc = "returned" /\ post_ret = "Ok")
                => \A c \in 1..n_chunks : ChunkAccepted(c)
           /\ (post_pc = "returned"
                 /\ \E j \in 1..Len(chunk_results) : chunk_results[j].resp # "Ok")
                => post_ret \notin {"Ok", "none"}

\* Two chunks through a buffer of one, the second accepted on a retry.
C36_Witness ==
    /\ post_fn = "post_transaction_chunks"
    /\ post_pc = "returned"
    /\ post_ret = "Ok"
    /\ n_chunks = 2
    /\ post_buffer = 1
    /\ Len(chunk_posts[2]) > 1

\* C37: post_chunk_with_retries always terminates under any sequence of
\* gateway answers; it returns Ok(offset of that chunk) if and only if one
\* of its attempts was answered 200, it makes no further POST after the
\* first 200, and otherwise it returns the error of its last attempt.
C37_ChunkRetriesTerminate ==
    /\ (post_fn = "post_chunk_with_retries") ~> (post_pc = "returned")
    /\ [](post_fn = "post_chunk_with_retries"
            => /\ chunk_answers[1].first_ok > 0
                    => /\ Len(chunk_posts[1]) = chunk_answers[1].first_ok
                       /\ post_pc = "returned"
               /\ post_pc = "returned"
                    => /\ post_ret = "Ok" <=> chunk_answers[1].first_ok > 0
                       /\ post_ret = chunk_answers[1].last
                       /\ post_ret # "Ok" => Len(chunk_posts[1]) = CHUNKS_RETRIES + 1)

\* The chunk was accepted on its last attempt.
C37_Witness ==
    /\ post_fn = "post_chunk_with_retries"
    /\ post_pc = "returned"
    /\ post_ret = "Ok"
    /\ chunk_answers[1].first_ok = CHUNKS_RETRIES + 1

\* C38: chunk_file_paths never returns an empty batch: every returned batch
\* holds at least one path, for every input sequence and budget, inputs
\* whose first file is larger than the budget included.
C38_NoEmptyBatch ==
    chunker_pc = "done"
        => \A j \in 1..Len(chunker_out) : Len(chunker_out[j].paths) > 0

\* C39: in every state of the status store produced by uploads followed by
\* any number of update_status calls, a stored Status has raw_status present
\* if and only if its status is Confirmed; a freshly uploaded file is stored
\* as Submitted with no raw_status, and a record that was Confirmed loses
\* its raw_status when a later GET answers Pending or NotFound.
C39_RawStatusIffConfirmed ==
    /\ \A k \in DOMAIN log_dir :
          StatusFromJson(log_dir[k]).raw_status # None
             <=> StatusFromJson(log_dir[k]).status = "Confirmed"
    /\ (st_fn = "upload_file_from_path" /\ st_pc = "returned" /\ st_ret.tag = "Ok"
          /\ st_post.log)
          => /\ Stored(log_dir, st_path).status = "Submitted"
             /\ Stored(log_dir, st_path).raw_status = None
    /\ (st_fn = "update_status" /\ st_pc = "returned" /\ st_ret.tag = "Ok"
          /\ st_ret.status.status \in {"Pending", "NotFound"})
          => /\ Stored(log_dir, st_path).status = st_ret.status.status
             /\ Stored(log_dir, st_path).raw_status = None

\* A record that was Confirmed and is Pending or NotFound after the next
\* update_status.
C39_Witness ==
    /\ st_fn = "update_status"
    /\ st_pc = "returned"
    /\ Blake3(st_path) \in DOMAIN st_before
    /\ Stored(st_before, st_path).status = "Confirmed"
    /\ Stored(st_before, st_path).raw_status # None
    /\ Stored(log_dir, st_path).status \in {"Pending", "NotFound"}
    /\ Stored(log_dir, st_path).raw_status = None

\* The GET of update_status failed: no answer, an HTTP code get_status does
\* not classify, or an answer 200 whose body is not a confirmation.
GetFailed ==
    \/ st_resp.kind = "transport"
    \/ st_resp.kind = "http" /\ st_resp.code \notin {200, 202, 404}
    \/ st_resp.kind = "http" /\ st_resp.code = 200
          /\ st_resp.body \notin {"Pending", "json"}

\* C40: when update_status fails the sidecar is left exactly as it was: if
\* the sidecar for the file is absent it returns StatusNotFound without
\* making any network call and without creating a file, and if the status
\* GET fails the stored Status, last_modified included, is unchanged.
C40_FailedUpdateLeavesSidecar ==
    (st_fn = "update_status" /\ st_pc = "returned")
        => /\ Blake3(st_path) \notin DOMAIN st_before
                => /\ st_ret.tag = "Err"
                   /\ st_ret.err = "StatusNotFound"
                   /\ st_gets = 0
                   /\ st_resp = NoAnswer
                   /\ log_dir = st_before
           /\ GetFailed => (st_ret.tag = "Err" /\ log_dir = st_before)
           /\ st_ret.tag = "Err" => log_dir = st_before

\* update_status of a Confirmed record whose GET got no answer.
C40_Witness ==
    /\ st_fn = "update_status"
    /\ st_pc = "returned"
    /\ st_resp.kind = "transport"
    /\ Blake3(st_path) \in DOMAIN st_before
    /\ Stored(st_before, st_path).status = "Confirmed"
    /\ log_dir = st_before

====
